---------------------------- MODULE Spec2Model ----------------------------
(***************************************************************************)
(* lsmart: a single-tier, group-partitioned LSM tree (Go).                 *)
(*                                                                         *)
(* The model follows the engine (Tree), its background compactor, the      *)
(* Group and the Node (segment handle).  Keys are the integers 1..MaxKey,  *)
(* ordered as bytes.Compare orders one-byte keys.  A value is the serial   *)
(* number of the Put that wrote it, so that a stale read is visible.       *)
(* 0 stands for "no value" (a key a table does not hold) and for nil.      *)
(***************************************************************************)
EXTENDS Integers, Sequences, FiniteSets, Bags, TLC

\* ------------------------------------------------------------- bounds
MaxKey == 3
MaxPuts == 4
MaxFaults == 1
MaxRestarts == 1
MaxCallers == 2
EarlierSegs == 6
MaxMembers == 3
MaxSegKey == 4
MaxReaders == 2

Keys == 1..MaxKey
Callers == 1..MaxCallers
Readers == 1..MaxReaders

\* ------------------------------------------------------ configuration
\* The configurations of the repository's tests, with the byte sizes scaled
\* to the model's one-byte keys and one-byte values (an entry is 2 bytes).
ConfCreateSSTFiles ==
    [GroupSize |-> 2, MaxGroups |-> 5, RatioNum |-> 6, RatioDen |-> 10,
     GroupSSTSize |-> 4, SSTDataBlockSize |-> 2]

ConfSimpleSSTFileRW ==
    [GroupSize |-> 1, MaxGroups |-> 1, RatioNum |-> 5, RatioDen |-> 10,
     GroupSSTSize |-> 4, SSTDataBlockSize |-> 2]

ConfTwoGroups ==
    [GroupSize |-> 1, MaxGroups |-> 2, RatioNum |-> 8, RatioDen |-> 10,
     GroupSSTSize |-> 4, SSTDataBlockSize |-> 2]

\* One entry per buffer (every Put rotates), two groups of two segments.
ConfRouting ==
    [GroupSize |-> 2, MaxGroups |-> 2, RatioNum |-> 8, RatioDen |-> 10,
     GroupSSTSize |-> 1, SSTDataBlockSize |-> 2]

\* A threshold GroupSize * CompactionRatio that is the integer 7 in exact
\* arithmetic; every flush goes to the one group.
ConfRatio ==
    [GroupSize |-> 25, MaxGroups |-> 1, RatioNum |-> 28, RatioDen |-> 100,
     GroupSSTSize |-> 4, SSTDataBlockSize |-> 2]

\* A segment size that is no multiple of 5: 5/4 of a buffer size is no integer.
ConfSSTSize2 ==
    [GroupSize |-> 2, MaxGroups |-> 5, RatioNum |-> 6, RatioDen |-> 10,
     GroupSSTSize |-> 2, SSTDataBlockSize |-> 2]

VARIABLES
    conf,           \* Tree.conf
    call,           \* the last call made directly on a Group or a Node, with what it returned
    locks,          \* Tree.dataLock, Tree.groupLock and every Group.nodeLock
    getCall,        \* per reader: where its Tree.Get call is, with its key and its result
    memTable,       \* Tree.memTable: the active buffer
    memTableIndex,  \* Tree.memTableIndex
    rOnlyMemTable,  \* Tree.rOnlyMemTable: the immutable queue, newest last
    groups,         \* Tree.groups
    groupSeq,       \* Tree.groupSeq
    sstSeq,         \* Tree.sstSeq
    memCompactC,    \* goroutines blocked sending an item on memCompactC (by wal file)
    groupCompactC,  \* goroutines blocked sending a group id on groupCompactC (a bag)
    closed,         \* stopc is closed
    pc,             \* where the compact goroutine is
    cur,            \* the compact goroutine's local variables
    destroyQ,       \* replaced nodes the destroy goroutine has still to destroy
    closedReaders,  \* files of the nodes whose sstReader is closed
    walFiles,       \* disk: walfile/{index}.wal, index -> records
    sstFiles,       \* disk: the .sst files, as [name, kvs]
    lastAck,        \* history: per key, the value of the last acknowledged Put
    prevAck,        \* history: per key, the value acknowledged before lastAck
    nPuts,          \* history: number of Put calls made
    faults,         \* history: number of I/O failures injected
    kills,          \* history: one record per kill-and-restart
    closedAt,       \* history: the compactor's position and sstSeq when Close ran
    putErr,         \* history: whether the most recent Put call returned an error
    putCall,        \* per caller: where its Put call is, with its key and value
    applied         \* history: the inserts applied to the active buffer, in order

vars == <<conf, call, locks, getCall, memTable, memTableIndex, rOnlyMemTable, groups, groupSeq, sstSeq,
          memCompactC, groupCompactC, closed, pc, cur, destroyQ, closedReaders,
          walFiles, sstFiles, lastAck, prevAck, nPuts, faults, kills, closedAt, putErr, putCall, applied>>


\* ------------------------------------------------------------ helpers
Nil == 0

\* no call has been made directly on a Group or a Node
NoCall == [op |-> "none"]

Min(S) == CHOOSE x \in S : \A y \in S : x <= y
Max(S) == CHOOSE x \in S : \A y \in S : y <= x

RECURSIVE SortedSeq(_)
SortedSeq(S) == IF S = {} THEN <<>> ELSE <<Min(S)>> \o SortedSeq(S \ {Min(S)})

RECURSIVE SeqSum(_)
SeqSum(s) == IF s = <<>> THEN 0 ELSE Head(s) + SeqSum(Tail(s))


RemoveAt(s, i) == SubSeq(s, 1, i - 1) \o SubSeq(s, i + 1, Len(s))

KeyLen(k) == 1
ValLen(v) == 1
KVLen(kv) == KeyLen(kv.Key) + ValLen(kv.Value)

\* ------------------------------------------------- memtable (skiplist)
EmptyTable == [k \in Keys |-> Nil]
MemKeys(m) == {k \in Keys : m[k] # Nil}
MemPut(m, k, v) == [m EXCEPT ![k] = v]
MemGet(m, k) == [value |-> m[k], ok |-> m[k] # Nil]
MemAll(m) == [i \in 1..Cardinality(MemKeys(m)) |->
                [Key |-> SortedSeq(MemKeys(m))[i], Value |-> m[SortedSeq(MemKeys(m))[i]]]]
MemSize(m) == SeqSum([i \in 1..Len(MemAll(m)) |-> KVLen(MemAll(m)[i])])

\* ------------------------------------------------------------ wal
RECURSIVE RestoreToMemtable(_, _)
RestoreToMemtable(records, m) ==
    IF records = <<>> THEN m
    ELSE RestoreToMemtable(Tail(records), MemPut(m, Head(records).Key, Head(records).Value))

\* ----------------------------------------------------- segment writer
\* Blocks of a segment: a block is sealed when the next entry would exceed
\* SSTDataBlockSize.  blocks is a sequence of sequences of KVs.
RECURSIVE WriterBlocks(_, _, _)
WriterBlocks(kvs, blk, done) ==
    IF kvs = <<>> THEN (IF blk = <<>> THEN done ELSE Append(done, blk))
    ELSE IF blk # <<>> /\
            SeqSum([i \in 1..Len(blk) |-> KVLen(blk[i])]) + KVLen(Head(kvs))
                > conf.SSTDataBlockSize
         THEN WriterBlocks(kvs, <<>>, Append(done, blk))
         ELSE WriterBlocks(Tail(kvs), Append(blk, Head(kvs)), done)

\* One index entry per data block, keyed by the block's last key.
WriterIndex(kvs) ==
    LET blocks == WriterBlocks(kvs, <<>>, <<>>)
    IN  [i \in 1..Len(blocks) |-> [Key |-> blocks[i][Len(blocks[i])].Key, block |-> blocks[i]]]

WriterSize(kvs) == SeqSum([i \in 1..Len(kvs) |-> KVLen(kvs[i])])

\* ------------------------------------------------------- file names
\* A file name is its sequence of tokens; fmt's %d prints a number as its numeral.
MaxNum == 2 * MaxPuts + 2
Numeral(n) == ToString(n)

sstFile(groupID, seq) == <<"g", Numeral(groupID), "_", Numeral(seq), ".sst">>

\* strconv.Atoi of a run of tokens: the number when the run is one numeral,
\* and 0 (with an error the callers drop) otherwise.
Atoi(tokens) ==
    IF Len(tokens) = 1 /\ \E n \in 0..MaxNum : Numeral(n) = tokens[1]
    THEN CHOOSE n \in 0..MaxNum : Numeral(n) = tokens[1]
    ELSE 0

\* strings.Replace(file, ".sst", "") then strings.Split(.., "_")
StripSST(file) == SelectSeq(file, LAMBDA t : t # ".sst")
SplitPos(file) == CHOOSE i \in 1..Len(file) : file[i] = "_"

getGroupSeqFromSSTFile(file) ==
    LET f == StripSST(file)
        p == SplitPos(f)
    IN  [groupID |-> Atoi(SubSeq(f, 1, p - 1)), seq |-> Atoi(SubSeq(f, p + 1, Len(f)))]

\* ---------------------------------------------------------------- Node
NewNode(file, groupID, seq, size, index, kvs) ==
    [file |-> file, groupID |-> groupID, seq |-> seq, size |-> size,
     startKey |-> index[1].Key, endKey |-> index[Len(index)].Key,
     index |-> index, kvs |-> kvs]

Miss == [value |-> Nil, ok |-> FALSE, err |-> FALSE]
Hit(v) == [value |-> v, ok |-> TRUE, err |-> FALSE]
Err == [value |-> Nil, ok |-> FALSE, err |-> TRUE]

\* binarySearchIndex going right also when index[mid].Key equals the key
RECURSIVE binarySearchIndexAfter(_, _, _, _)
binarySearchIndexAfter(index, key, start, end) ==
    IF start = end
    THEN [entry |-> index[start], ok |-> index[start].Key >= key]
    ELSE LET mid == start + ((end - start) \div 2)
         IN  IF index[mid].Key <= key
             THEN binarySearchIndexAfter(index, key, mid + 1, end)
             ELSE binarySearchIndexAfter(index, key, start, mid)

RECURSIVE binarySearchIndex(_, _, _, _)
binarySearchIndex(index, key, start, end) ==
    IF start = end
    THEN [entry |-> index[start], ok |-> index[start].Key >= key]
    ELSE LET mid == start + ((end - start) \div 2)
         IN  IF index[mid].Key < key
             THEN binarySearchIndex(index, key, mid + 1, end)
             ELSE binarySearchIndex(index, key, start, mid)

\* Filter.Exist on the block's bitmap: no false negatives, and no false
\* positives at these sizes.
FilterExist(block, key) == \E i \in DOMAIN block : block[i].Key = key

NodeOpen(n) == n.file \notin closedReaders

\* Node.Get trusting the index: the first entry of the located block is
\* returned without the filter and without comparing its key
NodeGetFirstOfBlock(n, key) ==
    IF key < n.startKey \/ key > n.endKey THEN Miss
    ELSE LET r == binarySearchIndex(n.index, key, 1, Len(n.index))
         IN  IF ~r.ok THEN Miss
             ELSE IF ~NodeOpen(n) THEN Err
             ELSE Hit(r.entry.block[1].Value)

NodeGet(n, key) ==
    IF key < n.startKey \/ key > n.endKey THEN Miss
    ELSE LET r == binarySearchIndex(n.index, key, 1, Len(n.index))
         IN  IF ~r.ok THEN Miss
             ELSE IF ~FilterExist(r.entry.block, key) THEN Miss
             ELSE IF ~NodeOpen(n) THEN Err
             ELSE LET hits == {i \in DOMAIN r.entry.block : r.entry.block[i].Key = key}
                  IN  IF hits = {} THEN Miss ELSE Hit(r.entry.block[Min(hits)].Value)

\* --------------------------------------------------------------- Group
NewGroup(id) == [id |-> id, nodes |-> <<>>, startKey |-> Nil, endKey |-> Nil, size |-> 0]

updateKeyRange(g) ==
    IF Len(g.nodes) = 0 THEN [g EXCEPT !.startKey = Nil, !.endKey = Nil]
    ELSE [g EXCEPT !.startKey = Min({g.nodes[i].startKey : i \in DOMAIN g.nodes}),
                   !.endKey = Max({g.nodes[i].endKey : i \in DOMAIN g.nodes})]

\* sortNodes leaving the slice in arrival order
sortNodesNot(nodes) == nodes

\* sort.Slice by Start() ascending of a slice that was sorted before the last
\* element was appended: for the slice lengths reached here sort.Slice is an
\* insertion sort, which moves the appended node in front of the nodes whose
\* start key is strictly larger and leaves equal start keys in arrival order.
sortNodes(nodes) ==
    IF Len(nodes) <= 1 THEN nodes
    ELSE LET n == nodes[Len(nodes)]
             rest == SubSeq(nodes, 1, Len(nodes) - 1)
             before == SelectSeq(rest, LAMBDA x : x.startKey <= n.startKey)
             after == SelectSeq(rest, LAMBDA x : x.startKey > n.startKey)
         IN  before \o <<n>> \o after

AddNode(g, node) ==
    LET g1 == [g EXCEPT !.nodes = Append(g.nodes, node), !.size = g.size + node.size]
        g2 == updateKeyRange(g1)
    IN  [g2 EXCEPT !.nodes = sortNodes(g2.nodes)]

RemoveNode(g, node) ==
    LET at == {i \in DOMAIN g.nodes : g.nodes[i] = node}
    IN  IF at = {} THEN g
        ELSE updateKeyRange([g EXCEPT !.nodes = RemoveAt(g.nodes, Min(at)),
                                      !.size = g.size - node.size])

\* RemoveNode's result: whether node was a member
RemoveNodeFound(g, node) == \E i \in DOMAIN g.nodes : g.nodes[i] = node

keyInRange(g, key) ==
    IF g.startKey = Nil \/ g.endKey = Nil THEN FALSE
    ELSE key >= g.startKey /\ key <= g.endKey

\* Group.Get's loop going on to the older segments after a read error
RECURSIVE GroupScanSkipsErr(_, _, _)
GroupScanSkipsErr(nodes, i, key) ==
    IF i < 1 THEN Miss
    ELSE LET r == NodeGet(nodes[i], key)
         IN  IF r.ok THEN r
             ELSE GroupScanSkipsErr(nodes, i - 1, key)

RECURSIVE GroupScan(_, _, _)
GroupScan(nodes, i, key) ==
    IF i < 1 THEN Miss
    ELSE LET r == NodeGet(nodes[i], key)
         IN  IF r.err THEN Err
             ELSE IF r.ok THEN r
             ELSE GroupScan(nodes, i - 1, key)

GroupGet(g, key) ==
    IF ~keyInRange(g, key) THEN Miss ELSE GroupScan(g.nodes, Len(g.nodes), key)

RECURSIVE PutAll(_, _)
PutAll(m, kvs) ==
    IF kvs = <<>> THEN m ELSE PutAll(MemPut(m, Head(kvs).Key, Head(kvs).Value), Tail(kvs))

RECURSIVE MergeNodes(_, _)
MergeNodes(nodes, m) ==
    IF nodes = <<>> THEN m ELSE MergeNodes(Tail(nodes), PutAll(m, Head(nodes).kvs))

\* GetAllKVs: [kvs, err]
GetAllKVs(g) ==
    IF \E i \in DOMAIN g.nodes : ~NodeOpen(g.nodes[i])
    THEN [kvs |-> <<>>, err |-> TRUE]
    ELSE [kvs |-> MemAll(MergeNodes(g.nodes, EmptyTable)), err |-> FALSE]


\* ------------------------------------------------------------- float64
\* A natural number is written as its bits, most significant first. A positive
\* float64 is [mant, exp]: mant has 53 bits, the first of them 1, and the
\* value is mant * 2^exp.
RECURSIVE NatBits(_)
NatBits(n) == IF n = 0 THEN <<>> ELSE NatBits(n \div 2) \o <<n % 2>>

\* the number a short run of bits writes
RECURSIVE BitsVal(_)
BitsVal(b) ==
    IF b = <<>> THEN 0 ELSE 2 * BitsVal(SubSeq(b, 1, Len(b) - 1)) + b[Len(b)]

PadBits(b, w) == [i \in 1..(w - Len(b)) |-> 0] \o b

StripBits(b) ==
    IF \A i \in DOMAIN b : b[i] = 0 THEN <<>>
    ELSE SubSeq(b, Min({i \in DOMAIN b : b[i] = 1}), Len(b))

BitsInc(b) ==
    LET zeros == {i \in DOMAIN b : b[i] = 0}
    IN  IF zeros = {} THEN <<1>> \o [i \in DOMAIN b |-> 0]
        ELSE [i \in DOMAIN b |-> IF i < Max(zeros) THEN b[i]
                                 ELSE IF i = Max(zeros) THEN 1 ELSE 0]

\* b * n + carry on Len(b) + k bits, for n and carry below 2^k; the low half
\* is computed first, its overflow is the carry into the high half
RECURSIVE TimesPad(_, _, _, _)
TimesPad(b, n, carry, k) ==
    IF Len(b) <= 1
    THEN PadBits(NatBits((IF b = <<>> THEN 0 ELSE b[1]) * n + carry), Len(b) + k)
    ELSE LET h == Len(b) \div 2
             lo == TimesPad(SubSeq(b, h + 1, Len(b)), n, carry, k)
             hi == TimesPad(SubSeq(b, 1, h), n, BitsVal(SubSeq(lo, 1, k)), k)
         IN  IF lo = <<>> THEN <<>> ELSE hi \o SubSeq(lo, k + 1, Len(lo))

BitsTimes(b, n) == StripBits(TimesPad(b, n, 0, Len(NatBits(n))))

BitsGeq(a, b) ==
    \/ Len(a) > Len(b)
    \/ /\ Len(a) = Len(b)
       /\ \/ a = b
          \/ \E i \in 1..Len(a) : a[i] > b[i] /\ SubSeq(a, 1, i - 1) = SubSeq(b, 1, i - 1)

\* bits * 2^exp rounded to 53 bits, to nearest and ties to even
F64Round(bits, exp) ==
    LET n == Len(bits)
        keep == SubSeq(bits, 1, 53)
        rest == SubSeq(bits, 54, n)
        half == rest[1] = 1 /\ \A i \in 2..Len(rest) : rest[i] = 0
        up == rest[1] = 1 /\ (~half \/ keep[53] = 1)
        r == IF up THEN BitsInc(keep) ELSE keep
    IN  IF n <= 53
        THEN [mant |-> bits \o [i \in 1..(53 - n) |-> 0], exp |-> exp - (53 - n)]
        ELSE IF Len(r) > 53
        THEN [mant |-> SubSeq(r, 1, 53), exp |-> exp + (n - 53) + 1]
        ELSE [mant |-> r, exp |-> exp + (n - 53)]

\* 2^i modulo q
RECURSIVE PowMod2(_, _)
PowMod2(i, q) ==
    IF i = 0 THEN 1 % q
    ELSE LET h == PowMod2(i \div 2, q)
         IN  (h * h * (IF i % 2 = 1 THEN 2 ELSE 1)) % q

\* p / q in binary, 0 < p < q: what is left after i digits, and the i-th digit
DivRem(p, q, i) == (p * PowMod2(i, q)) % q
DivDigit(p, q, i) == (2 * DivRem(p, q, i - 1)) \div q

RECURSIVE LeadingZeros(_, _)
LeadingZeros(r, q) == IF 2 * r >= q THEN 0 ELSE 1 + LeadingZeros(2 * r, q)

\* the float64 of the decimal literal p / q, 0 < p < q: the nearest float64
Float64Of(p, q) ==
    LET z == LeadingZeros(p, q)
        keep == [i \in 1..53 |-> DivDigit(p, q, z + i)]
        rem == DivRem(p, q, z + 53)
        up == 2 * rem > q \/ (2 * rem = q /\ keep[53] = 1)
        r == IF up THEN BitsInc(keep) ELSE keep
    IN  IF Len(r) > 53
        THEN [mant |-> SubSeq(r, 1, 53), exp |-> 1 - (z + 53)]
        ELSE [mant |-> r, exp |-> 0 - (z + 53)]

\* float64(n) * x: the exact product rounded once
F64Mul(n, x) == F64Round(BitsTimes(x.mant, n), x.exp)

\* float64(n) >= x
F64Geq(n, x) ==
    /\ n > 0
    /\ x.exp <= 0
    /\ BitsGeq(NatBits(n) \o [i \in 1..(0 - x.exp) |-> 0], x.mant)

\* the configured CompactionRatio: the float64 of the literal RatioNum / RatioDen
CompactionRatio == Float64Of(conf.RatioNum, conf.RatioDen)

\* ShouldCompact with the product taken in exact arithmetic
ShouldCompactExact(g) == Len(g.nodes) * conf.RatioDen >= conf.GroupSize * conf.RatioNum

\* float64(len(nodes)) >= float64(GroupSize) * CompactionRatio
ShouldCompact(g) == F64Geq(Len(g.nodes), F64Mul(conf.GroupSize, CompactionRatio))


\* ------------------------------------------------------- sync.RWMutex
\* The goroutines that take locks: the compactor, the Put callers, the Get callers.
NoProc == <<"none", 0>>
Compactor == <<"compact", 0>>
Putter(c) == <<"put", c>>
Getter(r) == <<"get", r>>
Procs == {Compactor} \cup {Putter(c) : c \in Callers} \cup {Getter(r) : r \in Readers}

\* A sync.RWMutex: w is the goroutine that holds it for writing, wq the
\* goroutines inside Lock() in the order they got there, r the goroutines
\* that hold it for reading and rq those blocked inside RLock().
Unlocked1 == [w |-> NoProc, wq |-> <<>>, r |-> {}, rq |-> {}]

\* RLock() is called: it returns at once unless a writer holds the lock or is
\* inside Lock()
RLockCall(L, p) ==
    IF L.w = NoProc /\ L.wq = <<>> THEN [L EXCEPT !.r = @ \cup {p}]
    ELSE [L EXCEPT !.rq = @ \cup {p}]

RUnlock(L, p) == [L EXCEPT !.r = @ \ {p}]

\* Lock() is called
LockCall(L, p) == [L EXCEPT !.wq = Append(@, p)]

\* Lock() returning to p although goroutines hold the lock for reading
GrantableOverReaders(L, p) == L.wq # <<>> /\ Head(L.wq) = p /\ L.w = NoProc

\* Lock() can return to p: p is the first writer, and no goroutine holds the lock
Grantable(L, p) == L.wq # <<>> /\ Head(L.wq) = p /\ L.w = NoProc /\ L.r = {}

\* Lock() returns to p
Granted(L, p) == [L EXCEPT !.w = p, !.wq = Tail(@)]

\* Unlock(): the readers blocked in RLock() get the lock before the next writer
Unlock(L, p) == [L EXCEPT !.w = NoProc, !.r = L.rq, !.rq = {}]

\* Lock() returns to p, which does its work and calls Unlock()
Passed(L, p) == Unlock(Granted(L, p), p)

\* dataLock, groupLock and the nodeLock of every group id, all free
Unlocked == [data |-> Unlocked1, group |-> Unlocked1, node |-> [id \in 0..MaxNum |-> Unlocked1]]

\* no Get call is in progress
NoGets == [r \in Readers |-> [pc |-> "out", key |-> Nil, gi |-> 0, j |-> 0, saw |-> <<>>]]

\* ---------------------------------------------------------------- Tree
walFile(index) == <<Numeral(index), ".wal">>

\* strings.Replace(walFile, ".wal", "") then strconv.Atoi
walFileToMemTableIndex(name) == Atoi(SelectSeq(name, LAMBDA t : t # ".wal"))

\* the scan of rOnlyMemTable run from the first item to the last
RECURSIVE ROnlyScanOldestFirst(_, _, _)
ROnlyScanOldestFirst(items, i, key) ==
    IF i < 1 THEN Miss
    ELSE IF MemGet(items[Len(items) - i + 1].memTable, key).ok
         THEN Hit(MemGet(items[Len(items) - i + 1].memTable, key).value)
         ELSE ROnlyScanOldestFirst(items, i - 1, key)

RECURSIVE ROnlyScan(_, _, _)
ROnlyScan(items, i, key) ==
    IF i < 1 THEN Miss
    ELSE IF MemGet(items[i].memTable, key).ok
         THEN Hit(MemGet(items[i].memTable, key).value)
         ELSE ROnlyScan(items, i - 1, key)

RECURSIVE GroupsScan(_, _, _)
GroupsScan(gs, i, key) ==
    IF i < 1 THEN Miss
    ELSE LET r == GroupGet(gs[i], key)
         IN  IF r.err THEN Err
             ELSE IF r.ok THEN r
             ELSE GroupsScan(gs, i - 1, key)

\* Tree.Get run without interruption in the current state
TreeGet(key) ==
    IF MemGet(memTable, key).ok THEN Hit(MemGet(memTable, key).value)
    ELSE LET r == ROnlyScan(rOnlyMemTable, Len(rOnlyMemTable), key)
         IN  IF r.ok THEN r ELSE GroupsScan(groups, Len(groups), key)

\* findOrCreateGroup taking the first group with room, whatever its key range
findOrCreateGroupAnyRoom(startKey, endKey) ==
    LET fit == {i \in DOMAIN groups : Len(groups[i].nodes) < conf.GroupSize}
    IN  IF fit # {}
        THEN [groups |-> groups, groupSeq |-> groupSeq, id |-> groups[Min(fit)].id]
        ELSE IF Len(groups) < conf.MaxGroups
        THEN [groups |-> Append(groups, NewGroup(groupSeq + 1)),
              groupSeq |-> groupSeq + 1, id |-> groupSeq + 1]
        ELSE [groups |-> groups, groupSeq |-> groupSeq, id |-> groups[Len(groups)].id]

\* findOrCreateGroup creating a group whenever none fits, whatever MaxGroups
findOrCreateGroupNoCap(startKey, endKey) ==
    LET fit == {i \in DOMAIN groups :
                   /\ Len(groups[i].nodes) < conf.GroupSize
                   /\ \/ groups[i].startKey = Nil
                      \/ groups[i].endKey = Nil
                      \/ ~(endKey < groups[i].startKey \/ startKey > groups[i].endKey)}
    IN  IF fit # {}
        THEN [groups |-> groups, groupSeq |-> groupSeq, id |-> groups[Min(fit)].id]
        ELSE [groups |-> Append(groups, NewGroup(groupSeq + 1)),
              groupSeq |-> groupSeq + 1, id |-> groupSeq + 1]

\* findOrCreateGroup putting a new group at the front of the list
findOrCreateGroupFront(startKey, endKey) ==
    LET fit == {i \in DOMAIN groups :
                   /\ Len(groups[i].nodes) < conf.GroupSize
                   /\ \/ groups[i].startKey = Nil
                      \/ groups[i].endKey = Nil
                      \/ ~(endKey < groups[i].startKey \/ startKey > groups[i].endKey)}
    IN  IF fit # {}
        THEN [groups |-> groups, groupSeq |-> groupSeq, id |-> groups[Min(fit)].id]
        ELSE IF Len(groups) < conf.MaxGroups
        THEN [groups |-> <<NewGroup(groupSeq + 1)>> \o groups,
              groupSeq |-> groupSeq + 1, id |-> groupSeq + 1]
        ELSE IF Len(groups) > 0
        THEN [groups |-> groups, groupSeq |-> groupSeq, id |-> groups[Len(groups)].id]
        ELSE [groups |-> Append(groups, NewGroup(groupSeq + 1)),
              groupSeq |-> groupSeq + 1, id |-> groupSeq + 1]

\* findOrCreateGroup: [groups, groupSeq, id] with id the chosen group's id
findOrCreateGroup(startKey, endKey) ==
    LET fit == {i \in DOMAIN groups :
                   /\ Len(groups[i].nodes) < conf.GroupSize
                   /\ \/ groups[i].startKey = Nil
                      \/ groups[i].endKey = Nil
                      \/ ~(endKey < groups[i].startKey \/ startKey > groups[i].endKey)}
    IN  IF fit # {}
        THEN [groups |-> groups, groupSeq |-> groupSeq, id |-> groups[Min(fit)].id]
        ELSE IF Len(groups) < conf.MaxGroups
        THEN [groups |-> Append(groups, NewGroup(groupSeq + 1)),
              groupSeq |-> groupSeq + 1, id |-> groupSeq + 1]
        ELSE IF Len(groups) > 0
        THEN [groups |-> groups, groupSeq |-> groupSeq, id |-> groups[Len(groups)].id]
        ELSE [groups |-> Append(groups, NewGroup(groupSeq + 1)),
              groupSeq |-> groupSeq + 1, id |-> groupSeq + 1]

GroupAt(gs, id) == Min({i \in DOMAIN gs : gs[i].id = id})
HasGroup(gs, id) == \E i \in DOMAIN gs : gs[i].id = id

\* createNodeFromSST on a file the writer has finished
createNodeFromSST(groupID, seq, kvs) ==
    NewNode(sstFile(groupID, seq), groupID, seq, WriterSize(kvs), WriterIndex(kvs), kvs)

\* the writer's file on disk: a file of the same name is replaced
WriteSST(files, name, kvs) ==
    {f \in files : f.name # name} \cup {[name |-> name, kvs |-> kvs]}

\* no Put call is in progress
NoCalls == [c \in Callers |-> [pc |-> "out", key |-> Nil, value |-> Nil]]

\* the engine write lock held by the compactor for the whole of a flush or a
\* compaction: a Put gets it only while the compactor is idle
LockWhileCompactorIdle == (\A c \in Callers : putCall[c].pc = "out") /\ pc = "idle"

\* a lock that is granted while another Put call holds it
LockAlwaysGranted == TRUE

\* dataLock.Lock() returns when no Put call holds the lock
LockFree == \A c \in Callers : putCall[c].pc = "out"

NotClosed == [pc |-> "open", sstSeq |-> 0]

IdleCur == [walFile |-> <<>>, memTable |-> EmptyTable, gid |-> 0, seq |-> 0,
            nodes |-> <<>>, toRemove |-> <<>>, toAdd |-> <<>>, added |-> FALSE]

\* the frozen item built after memTableIndex was incremented
oldItemOfNextIndex(written) == [walFile |-> walFile(memTableIndex + 1), memTable |-> written]

\* refreshMemTableLocked: oldItem, the frozen buffer with the wal file it was
\* written under
oldItem(written) == [walFile |-> walFile(memTableIndex), memTable |-> written]

\* the size test in exact arithmetic: size * 5/4 > GroupSSTSize
OverThresholdExact(size) == size * 5 > 4 * conf.GroupSSTSize

\* Tree.Put's size test: uint64(Size()*5/4) <= GroupSSTSize returns without a
\* rotation; the division is Go's integer division
OverThreshold(size) == (size * 5) \div 4 > conf.GroupSSTSize

\* ----------------------------------------------------------------- Put
\* Tree.Put, with refreshMemTableLocked and newMemTable when the buffer is full
Put(key) ==
    LET value == nPuts + 1
        written == MemPut(memTable, key, value)
        record == [Key |-> key, Value |-> value]
    IN  /\ nPuts < MaxPuts
        /\ LockFree
        /\ nPuts' = value
        /\ putErr' = FALSE
        /\ prevAck' = [prevAck EXCEPT ![key] = lastAck[key]]
        /\ lastAck' = [lastAck EXCEPT ![key] = value]
        /\ IF ~OverThreshold(MemSize(written))
           THEN /\ memTable' = written
                /\ applied' = Append(applied, record)
                /\ walFiles' = [walFiles EXCEPT ![walFile(memTableIndex)] = Append(@, record)]
                /\ UNCHANGED <<rOnlyMemTable, memCompactC, memTableIndex>>
           ELSE /\ applied' = <<>>
                /\ rOnlyMemTable' = Append(rOnlyMemTable, oldItem(written))
                /\ memCompactC' = memCompactC \cup {oldItem(written).walFile}
                /\ memTableIndex' = memTableIndex + 1
                /\ memTable' = EmptyTable
                /\ walFiles' = [i \in DOMAIN walFiles \cup {walFile(memTableIndex + 1)} |->
                                  IF i = walFile(memTableIndex)
                                  THEN Append(walFiles[i], record)
                                  ELSE IF i \in DOMAIN walFiles THEN walFiles[i] ELSE <<>>]
        /\ UNCHANGED <<conf, call, locks, getCall, groups, groupSeq, sstSeq, groupCompactC, closed, pc, cur,
                       destroyQ, closedReaders, sstFiles, faults, kills, closedAt, putCall>>


\* ------------------------------------------- Put, one statement at a time
\* Tree.Put called by caller c: dataLock.Lock() is granted
PutLock(c, key) ==
    /\ nPuts < MaxPuts
    /\ putCall[c].pc = "out"
    /\ LockFree
    /\ putCall' = [putCall EXCEPT ![c] = [pc |-> "locked", key |-> key, value |-> nPuts + 1]]
    /\ nPuts' = nPuts + 1
    /\ UNCHANGED <<conf, call, locks, getCall, memTable, memTableIndex, rOnlyMemTable, groups, groupSeq, sstSeq,
                   memCompactC, groupCompactC, closed, pc, cur, destroyQ, closedReaders,
                   walFiles, sstFiles, lastAck, prevAck, faults, kills, closedAt, putErr,
                   applied>>

\* Tree.Put: walWriter.Write(key, value)
PutWal(c) ==
    /\ putCall[c].pc = "locked"
    /\ walFiles' = [walFiles EXCEPT ![walFile(memTableIndex)] =
                       Append(@, [Key |-> putCall[c].key, Value |-> putCall[c].value])]
    /\ putCall' = [putCall EXCEPT ![c].pc = "logged"]
    /\ UNCHANGED <<conf, call, locks, getCall, memTable, memTableIndex, rOnlyMemTable, groups, groupSeq, sstSeq,
                   memCompactC, groupCompactC, closed, pc, cur, destroyQ, closedReaders,
                   sstFiles, lastAck, prevAck, nPuts, faults, kills, closedAt, putErr,
                   applied>>

\* Tree.Put: memTable.Put, the size test, refreshMemTableLocked, and the return
\* that releases dataLock
PutInsert(c) ==
    LET key == putCall[c].key
        value == putCall[c].value
        written == MemPut(memTable, key, value)
    IN  /\ putCall[c].pc = "logged"
        /\ putCall' = [putCall EXCEPT ![c] = NoCalls[c]]
        /\ putErr' = FALSE
        /\ prevAck' = [prevAck EXCEPT ![key] = lastAck[key]]
        /\ lastAck' = [lastAck EXCEPT ![key] = value]
        /\ IF ~OverThreshold(MemSize(written))
           THEN /\ memTable' = written
                /\ applied' = Append(applied, [Key |-> key, Value |-> value])
                /\ UNCHANGED <<rOnlyMemTable, memCompactC, memTableIndex, walFiles>>
           ELSE /\ applied' = <<>>
                /\ rOnlyMemTable' = Append(rOnlyMemTable, oldItem(written))
                /\ memCompactC' = memCompactC \cup {oldItem(written).walFile}
                /\ memTableIndex' = memTableIndex + 1
                /\ memTable' = EmptyTable
                /\ walFiles' = [i \in DOMAIN walFiles \cup {walFile(memTableIndex + 1)} |->
                                  IF i \in DOMAIN walFiles THEN walFiles[i] ELSE <<>>]
        /\ UNCHANGED <<conf, call, locks, getCall, groups, groupSeq, sstSeq, groupCompactC, closed, pc, cur,
                       destroyQ, closedReaders, sstFiles, nPuts, faults, kills, closedAt>>

\* ------------------------------------------------- compact: the flush
ItemOf(w) == rOnlyMemTable[Min({i \in DOMAIN rOnlyMemTable : rOnlyMemTable[i].walFile = w})]

\* compact receives an item; flushMemTable up to NewSSTWriter (writerOk: its outcome)
FlushBegin(w, writerOk) ==
    LET item == ItemOf(w)
        allKVs == MemAll(item.memTable)
        r == findOrCreateGroup(allKVs[1].Key, allKVs[Len(allKVs)].Key)
    IN  /\ pc = "idle"
        /\ w \in memCompactC
        /\ memCompactC' = memCompactC \ {w}
        /\ IF Len(allKVs) = 0
           THEN /\ pc' = "fl_pop"
                /\ cur' = [IdleCur EXCEPT !.walFile = w, !.memTable = item.memTable]
                /\ UNCHANGED <<groups, groupSeq, sstSeq>>
           ELSE /\ groups' = r.groups
                /\ groupSeq' = r.groupSeq
                /\ sstSeq' = sstSeq + 1
                /\ cur' = [IdleCur EXCEPT !.walFile = w, !.memTable = item.memTable,
                                          !.gid = r.id, !.seq = sstSeq + 1]
                /\ pc' = IF writerOk THEN "fl_write" ELSE "fl_pop"
        /\ UNCHANGED <<conf, call, locks, getCall, memTable, memTableIndex, rOnlyMemTable, groupCompactC, closed,
                       destroyQ, closedReaders, walFiles, sstFiles, lastAck, prevAck,
                       nPuts, kills, closedAt, putErr, putCall, applied>>

FlushRoute(w) == FlushBegin(w, TRUE) /\ UNCHANGED faults

FlushRouteFail(w) == faults < MaxFaults /\ faults' = faults + 1 /\ FlushBegin(w, FALSE)

\* flushMemTable from Append to tryTriggerGroupCompact (readerOk: NewSSTReader's outcome)
FlushFinish(readerOk) ==
    LET allKVs == MemAll(cur.memTable)
        newNode == createNodeFromSST(cur.gid, cur.seq, allKVs)
        at == GroupAt(groups, cur.gid)
        g == AddNode(groups[at], newNode)
    IN  /\ pc = "fl_write"
        /\ sstFiles' = WriteSST(sstFiles, sstFile(cur.gid, cur.seq), allKVs)
        /\ IF readerOk
           THEN /\ groups' = [groups EXCEPT ![at] = g]
                /\ groupCompactC' = IF ShouldCompact(g)
                                    THEN groupCompactC (+) SetToBag({cur.gid})
                                    ELSE groupCompactC
                /\ cur' = [cur EXCEPT !.added = TRUE]
           ELSE UNCHANGED <<groups, groupCompactC, cur>>
        /\ pc' = "fl_pop"
        /\ UNCHANGED <<conf, call, locks, getCall, memTable, memTableIndex, rOnlyMemTable, groupSeq, sstSeq,
                       memCompactC, closed, destroyQ, closedReaders, walFiles, lastAck,
                       prevAck, nPuts, kills, closedAt, putErr, putCall, applied>>

FlushWrite == FlushFinish(TRUE) /\ UNCHANGED faults

FlushWriteFail == faults < MaxFaults /\ faults' = faults + 1 /\ FlushFinish(FALSE)

\* compactMemTable leaving the flushed item in rOnlyMemTable
FlushPopKeeps ==
    /\ pc = "fl_pop"
    /\ LockFree
    /\ pc' = "fl_rmwal"
    /\ UNCHANGED <<conf, call, locks, getCall, memTable, memTableIndex, rOnlyMemTable, groups, groupSeq, sstSeq,
                   memCompactC, groupCompactC, closed, cur, destroyQ, closedReaders, walFiles,
                   sstFiles, lastAck, prevAck, nPuts, faults, kills, closedAt, putErr, putCall, applied>>

\* compactMemTable: the item leaves rOnlyMemTable
FlushPop ==
    LET at == {i \in DOMAIN rOnlyMemTable : rOnlyMemTable[i].walFile = cur.walFile}
    IN  /\ pc = "fl_pop"
        /\ LockFree
        /\ rOnlyMemTable' = IF at = {} THEN rOnlyMemTable
                            ELSE RemoveAt(rOnlyMemTable, Min(at))
        /\ pc' = "fl_rmwal"
        /\ UNCHANGED <<conf, call, locks, getCall, memTable, memTableIndex, groups, groupSeq, sstSeq, memCompactC,
                       groupCompactC, closed, cur, destroyQ, closedReaders, walFiles,
                       sstFiles, lastAck, prevAck, nPuts, faults, kills, closedAt, putErr, putCall, applied>>

\* compactMemTable: os.Remove of the item's wal file
FlushRemoveWal ==
    /\ pc = "fl_rmwal"
    /\ walFiles' = [i \in DOMAIN walFiles \ {cur.walFile} |-> walFiles[i]]
    /\ pc' = "idle"
    /\ cur' = IdleCur
    /\ UNCHANGED <<conf, call, locks, getCall, memTable, memTableIndex, rOnlyMemTable, groups, groupSeq, sstSeq,
                   memCompactC, groupCompactC, closed, destroyQ, closedReaders, sstFiles,
                   lastAck, prevAck, nPuts, faults, kills, closedAt, putErr, putCall, applied>>


\* compactGroup's loop beginning a new file as soon as the running size would
\* reach GroupSSTSize
RECURSIVE ChunksAtLimit(_, _, _, _)
ChunksAtLimit(kvs, chunk, currentSize, done) ==
    IF kvs = <<>> THEN (IF chunk = <<>> THEN done ELSE Append(done, chunk))
    ELSE IF currentSize > 0 /\ currentSize + KVLen(Head(kvs)) >= conf.GroupSSTSize
         THEN ChunksAtLimit(Tail(kvs), <<Head(kvs)>>, KVLen(Head(kvs)), Append(done, chunk))
         ELSE ChunksAtLimit(Tail(kvs), Append(chunk, Head(kvs)),
                            currentSize + KVLen(Head(kvs)), done)

\* ---------------------------------------- compact: the group compaction
\* compactGroup's loop: the merged list cut into output files, a new file
\* begun when the next entry would take the running size over GroupSSTSize
RECURSIVE Chunks(_, _, _, _)
Chunks(kvs, chunk, currentSize, done) ==
    IF kvs = <<>> THEN (IF chunk = <<>> THEN done ELSE Append(done, chunk))
    ELSE IF currentSize > 0 /\ currentSize + KVLen(Head(kvs)) > conf.GroupSSTSize
         THEN Chunks(Tail(kvs), <<Head(kvs)>>, KVLen(Head(kvs)), Append(done, chunk))
         ELSE Chunks(Tail(kvs), Append(chunk, Head(kvs)), currentSize + KVLen(Head(kvs)), done)

RECURSIVE WriteChunks(_, _, _, _)
WriteChunks(files, groupID, seq, chunks) ==
    IF chunks = <<>> THEN files
    ELSE WriteChunks(WriteSST(files, sstFile(groupID, seq), Head(chunks)),
                     groupID, seq + 1, Tail(chunks))

\* compactGroup returning early only for a group without any segment
NothingToCompactEmpty(groupID) ==
    ~HasGroup(groups, groupID) \/ Len(groups[GroupAt(groups, groupID)].nodes) = 0

\* compactGroup's early returns: the group is not in the list, or it has at
\* most one segment
NothingToCompact(groupID) ==
    ~HasGroup(groups, groupID) \/ Len(groups[GroupAt(groups, groupID)].nodes) <= 1

\* compact receives a group id; compactGroup up to the call of replaceGroupNodes.
\* writers: the number of NewSSTWriter calls that succeed; noReader: the output
\* file whose NewSSTReader fails (0: none); readOk: GetAllKVs reads every node.
CompactGroupRun(groupID, readOk, writers, noReader) ==
    LET at == GroupAt(groups, groupID)
        nodes == groups[at].nodes
        all == GetAllKVs(groups[at])
        chunks == Chunks(all.kvs, <<>>, 0, <<>>)
        written == SubSeq(chunks, 1, IF writers < Len(chunks) THEN writers ELSE Len(chunks))
        newNodes == [i \in 1..Len(written) |->
                        createNodeFromSST(groupID, sstSeq + i, written[i])]
        kept == SelectSeq(newNodes, LAMBDA n : n.seq # sstSeq + noReader)
        calls == IF writers < Len(chunks) THEN writers + 1 ELSE Len(chunks)
    IN  /\ pc = "idle"
        /\ BagIn(groupID, groupCompactC)
        /\ groupCompactC' = groupCompactC (-) SetToBag({groupID})
        /\ IF NothingToCompact(groupID)
           THEN UNCHANGED <<pc, cur, sstSeq, sstFiles>>
           ELSE IF all.err \/ ~readOk \/ Len(all.kvs) = 0
           THEN UNCHANGED <<pc, cur, sstSeq, sstFiles>>
           ELSE IF writers = 0
           THEN /\ sstSeq' = sstSeq + 1
                /\ UNCHANGED <<pc, cur, sstFiles>>
           ELSE /\ sstSeq' = sstSeq + calls
                /\ sstFiles' = WriteChunks(sstFiles, groupID, sstSeq + 1, written)
                /\ cur' = [IdleCur EXCEPT !.gid = groupID, !.nodes = nodes,
                                          !.toRemove = nodes, !.toAdd = kept]
                /\ pc' = "cg_remove"
        /\ UNCHANGED <<conf, call, locks, getCall, memTable, memTableIndex, rOnlyMemTable, groups, groupSeq,
                       memCompactC, closed, destroyQ, closedReaders, walFiles, lastAck,
                       prevAck, nPuts, kills, closedAt, putErr, putCall, applied>>

CompactGroup(groupID) ==
    CompactGroupRun(groupID, TRUE, MaxNum, 0) /\ UNCHANGED faults

\* the single failures a compaction of the group can meet: GetAllKVs fails, the
\* NewSSTWriter of output file writers + 1 fails, or the NewSSTReader of output file
\* noReader fails
FaultPlans(groupID) ==
    IF ~HasGroup(groups, groupID) THEN {}
    ELSE LET g == groups[GroupAt(groups, groupID)]
             n == Len(Chunks(GetAllKVs(g).kvs, <<>>, 0, <<>>))
         IN  IF Len(g.nodes) <= 1 \/ GetAllKVs(g).err THEN {}
             ELSE {[readOk |-> FALSE, writers |-> MaxNum, noReader |-> 0]}
                  \cup {[readOk |-> TRUE, writers |-> w, noReader |-> 0] : w \in 0..(n - 1)}
                  \cup {[readOk |-> TRUE, writers |-> MaxNum, noReader |-> r] : r \in 1..n}

CompactGroupFail(groupID, plan) ==
    /\ faults < MaxFaults
    /\ faults' = faults + 1
    /\ plan \in FaultPlans(groupID)
    /\ CompactGroupRun(groupID, plan.readOk, plan.writers, plan.noReader)

\* replaceGroupNodes: one group.RemoveNode(oldNode)
CompactGroupRemove ==
    LET at == GroupAt(groups, cur.gid)
        more == Tail(cur.toRemove) # <<>>
    IN  /\ pc = "cg_remove"
        /\ groups' = [groups EXCEPT ![at] = RemoveNode(groups[at], Head(cur.toRemove))]
        /\ IF more \/ cur.toAdd # <<>>
           THEN /\ cur' = [cur EXCEPT !.toRemove = Tail(cur.toRemove)]
                /\ pc' = IF more THEN "cg_remove" ELSE "cg_add"
                /\ UNCHANGED destroyQ
           ELSE /\ destroyQ' = destroyQ \o cur.nodes
                /\ cur' = IdleCur
                /\ pc' = "idle"
        /\ UNCHANGED <<conf, call, locks, getCall, memTable, memTableIndex, rOnlyMemTable, groupSeq, sstSeq,
                       memCompactC, groupCompactC, closed, closedReaders, walFiles,
                       sstFiles, lastAck, prevAck, nPuts, faults, kills, closedAt, putErr, putCall, applied>>

\* replaceGroupNodes: one group.AddNode(newNode)
CompactGroupAdd ==
    LET at == GroupAt(groups, cur.gid)
    IN  /\ pc = "cg_add"
        /\ groups' = [groups EXCEPT ![at] = AddNode(groups[at], Head(cur.toAdd))]
        /\ IF Tail(cur.toAdd) # <<>>
           THEN /\ cur' = [cur EXCEPT !.toAdd = Tail(cur.toAdd)]
                /\ UNCHANGED <<pc, destroyQ>>
           ELSE /\ destroyQ' = destroyQ \o cur.nodes
                /\ cur' = IdleCur
                /\ pc' = "idle"
        /\ UNCHANGED <<conf, call, locks, getCall, memTable, memTableIndex, rOnlyMemTable, groupSeq, sstSeq,
                       memCompactC, groupCompactC, closed, closedReaders, walFiles,
                       sstFiles, lastAck, prevAck, nPuts, faults, kills, closedAt, putErr, putCall, applied>>

\* the destroy goroutine closing the reader without unlinking the file
DestroyKeepsFile ==
    /\ destroyQ # <<>>
    /\ closedReaders' = closedReaders \cup {Head(destroyQ).file}
    /\ destroyQ' = Tail(destroyQ)
    /\ UNCHANGED <<conf, call, locks, getCall, memTable, memTableIndex, rOnlyMemTable, groups, groupSeq, sstSeq,
                   memCompactC, groupCompactC, closed, pc, cur, walFiles, sstFiles, lastAck,
                   prevAck, nPuts, faults, kills, closedAt, putErr, putCall, applied>>

\* the destroy goroutine: one oldNode.Destroy()
DestroyNode ==
    /\ destroyQ # <<>>
    /\ closedReaders' = closedReaders \cup {Head(destroyQ).file}
    /\ sstFiles' = {f \in sstFiles : f.name # Head(destroyQ).file}
    /\ destroyQ' = Tail(destroyQ)
    /\ UNCHANGED <<conf, call, locks, getCall, memTable, memTableIndex, rOnlyMemTable, groups, groupSeq, sstSeq,
                   memCompactC, groupCompactC, closed, pc, cur, walFiles, lastAck,
                   prevAck, nPuts, faults, kills, closedAt, putErr, putCall, applied>>

\* ------------------------------------------------------ Close and stop
Close ==
    /\ ~closed
    /\ closed' = TRUE
    /\ closedAt' = [pc |-> pc, sstSeq |-> sstSeq]
    /\ closedReaders' = closedReaders \cup
           {groups[i].nodes[j].file : <<i, j>> \in
               {<<a, b>> \in (DOMAIN groups) \X (1..MaxNum) : b \in DOMAIN groups[a].nodes}}
    /\ UNCHANGED <<conf, call, locks, getCall, memTable, memTableIndex, rOnlyMemTable, groups, groupSeq, sstSeq,
                   memCompactC, groupCompactC, pc, cur, destroyQ, walFiles, sstFiles,
                   lastAck, prevAck, nPuts, faults, kills, putErr, putCall, applied>>

\* compact: the select takes the stopc case
CompactorStop ==
    /\ closed
    /\ pc = "idle"
    /\ pc' = "stopped"
    /\ UNCHANGED <<conf, call, locks, getCall, memTable, memTableIndex, rOnlyMemTable, groups, groupSeq, sstSeq,
                   memCompactC, groupCompactC, closed, cur, destroyQ, closedReaders,
                   walFiles, sstFiles, lastAck, prevAck, nPuts, faults, kills, closedAt, putErr, putCall, applied>>


\* ------------------------------------------- kill and NewTree (restart)
Parsed(f) == getGroupSeqFromSSTFile(f.name)

\* loadNode: the node of one .sst file
loadNode(f, groupID) ==
    NewNode(f.name, groupID, Parsed(f).seq, WriterSize(f.kvs), WriterIndex(f.kvs), f.kvs)

RECURSIVE AddNodes(_, _)
AddNodes(g, nodes) == IF nodes = <<>> THEN g ELSE AddNodes(AddNode(g, Head(nodes)), Tail(nodes))

\* constructTree leaving the segment-seq generator at zero
constructTreeSeqZero ==
    LET ids == SortedSeq({Parsed(f).groupID : f \in sstFiles})
        filesOf(id) == {f \in sstFiles : Parsed(f).groupID = id}
        seqsOf(id) == SortedSeq({Parsed(f).seq : f \in filesOf(id)})
        fileAt(id, q) == CHOOSE f \in filesOf(id) : Parsed(f).seq = q
        group(id) == AddNodes(NewGroup(id),
                        [i \in 1..Len(seqsOf(id)) |-> loadNode(fileAt(id, seqsOf(id)[i]), id)])
    IN  [groups |-> [i \in 1..Len(ids) |-> group(ids[i])],
         groupSeq |-> IF sstFiles = {} THEN 0 ELSE Max({Parsed(f).groupID : f \in sstFiles}),
         sstSeq |-> 0]

\* constructTree: the groups rebuilt from the .sst files, by parsed group id then seq
constructTree ==
    LET ids == SortedSeq({Parsed(f).groupID : f \in sstFiles})
        filesOf(id) == {f \in sstFiles : Parsed(f).groupID = id}
        seqsOf(id) == SortedSeq({Parsed(f).seq : f \in filesOf(id)})
        fileAt(id, q) == CHOOSE f \in filesOf(id) : Parsed(f).seq = q
        group(id) == AddNodes(NewGroup(id),
                        [i \in 1..Len(seqsOf(id)) |-> loadNode(fileAt(id, seqsOf(id)[i]), id)])
    IN  [groups |-> [i \in 1..Len(ids) |-> group(ids[i])],
         groupSeq |-> IF sstFiles = {} THEN 0 ELSE Max({Parsed(f).groupID : f \in sstFiles}),
         sstSeq |-> IF sstFiles = {} THEN 0 ELSE Max({Parsed(f).seq : f \in sstFiles})]

\* restoreMemTable with the wal files sorted by descending index: the oldest
\* wal file becomes the active buffer
restoreMemTableOldestLast ==
    LET idx == SortedSeq({walFileToMemTableIndex(n) : n \in DOMAIN walFiles})
        nameAt(i) == CHOOSE n \in DOMAIN walFiles : walFileToMemTableIndex(n) = idx[i]
        table(i) == RestoreToMemtable(walFiles[nameAt(i)], EmptyTable)
    IN  [memTable |-> table(1),
         memTableIndex |-> walFileToMemTableIndex(nameAt(1)),
         rOnly |-> [i \in 1..(Len(idx) - 1) |->
                      [walFile |-> nameAt(Len(idx) + 1 - i), memTable |-> table(Len(idx) + 1 - i)]]]

\* restoreMemTable appending the earlier buffers newest first
restoreMemTableNewestFirst ==
    LET idx == SortedSeq({walFileToMemTableIndex(n) : n \in DOMAIN walFiles})
        nameAt(i) == CHOOSE n \in DOMAIN walFiles : walFileToMemTableIndex(n) = idx[i]
        table(i) == RestoreToMemtable(walFiles[nameAt(i)], EmptyTable)
    IN  [memTable |-> table(Len(idx)),
         memTableIndex |-> walFileToMemTableIndex(nameAt(Len(idx))),
         rOnly |-> [i \in 1..(Len(idx) - 1) |->
                      [walFile |-> nameAt(Len(idx) - i), memTable |-> table(Len(idx) - i)]]]

\* constructMemtable and restoreMemTable: [memTable, memTableIndex, rOnly]
restoreMemTable ==
    LET idx == SortedSeq({walFileToMemTableIndex(n) : n \in DOMAIN walFiles})
        nameAt(i) == CHOOSE n \in DOMAIN walFiles : walFileToMemTableIndex(n) = idx[i]
        table(i) == RestoreToMemtable(walFiles[nameAt(i)], EmptyTable)
    IN  [memTable |-> table(Len(idx)),
         memTableIndex |-> walFileToMemTableIndex(nameAt(Len(idx))),
         rOnly |-> [i \in 1..(Len(idx) - 1) |-> [walFile |-> nameAt(i), memTable |-> table(i)]]]

\* The process is killed and NewTree is run on the same directory.
Restart ==
    /\ Len(kills) < MaxRestarts
    /\ kills' = Append(kills, [readOk |-> \A k \in Keys : lastAck[k] # Nil =>
                                                TreeGet(k) = Hit(lastAck[k]),
                               sstSeq |-> constructTree.sstSeq,
                               memTableIndex |-> memTableIndex])
    /\ groups' = constructTree.groups
    /\ groupSeq' = constructTree.groupSeq
    /\ sstSeq' = constructTree.sstSeq
    /\ IF DOMAIN walFiles = {}
       THEN /\ memTable' = EmptyTable
            /\ applied' = <<>>
            /\ memTableIndex' = 0
            /\ rOnlyMemTable' = <<>>
            /\ walFiles' = (walFile(0) :> <<>>)
       ELSE /\ memTable' = restoreMemTable.memTable
            /\ applied' = walFiles[walFile(restoreMemTable.memTableIndex)]
            /\ memTableIndex' = restoreMemTable.memTableIndex
            /\ rOnlyMemTable' = restoreMemTable.rOnly
            /\ UNCHANGED walFiles
    /\ memCompactC' = {rOnlyMemTable'[i].walFile : i \in DOMAIN rOnlyMemTable'}
    /\ groupCompactC' = EmptyBag
    /\ closed' = FALSE
    /\ pc' = "idle"
    /\ cur' = IdleCur
    /\ destroyQ' = <<>>
    /\ closedReaders' = {}
    /\ closedAt' = NotClosed
    /\ putCall' = NoCalls
    /\ UNCHANGED <<conf, call, locks, getCall, sstFiles, lastAck, prevAck, nPuts, faults, putErr>>

\* ------------------------------------------------------ specifications
InitWith(c) ==
    /\ conf = c
    /\ memTable = EmptyTable
    /\ memTableIndex = 0
    /\ rOnlyMemTable = <<>>
    /\ groups = <<>>
    /\ groupSeq = 0
    /\ sstSeq = 0
    /\ memCompactC = {}
    /\ groupCompactC = EmptyBag
    /\ closed = FALSE
    /\ pc = "idle"
    /\ cur = IdleCur
    /\ destroyQ = <<>>
    /\ closedReaders = {}
    /\ walFiles = (walFile(0) :> <<>>)
    /\ sstFiles = {}
    /\ lastAck = [k \in Keys |-> Nil]
    /\ prevAck = [k \in Keys |-> Nil]
    /\ nPuts = 0
    /\ faults = 0
    /\ kills = <<>>
    /\ closedAt = NotClosed
    /\ putErr = FALSE
    /\ putCall = NoCalls
    /\ applied = <<>>
    /\ call = NoCall
    /\ locks = Unlocked
    /\ getCall = NoGets

GroupIDs == 0..MaxNum

\* the engine and its compactor, with no failure, no Close and no kill
\* the compact goroutine and the destroy goroutine
Work ==
    \/ \E w \in memCompactC : FlushRoute(w)
    \/ FlushWrite
    \/ FlushPop
    \/ FlushRemoveWal
    \/ \E id \in GroupIDs : CompactGroup(id)
    \/ CompactGroupRemove
    \/ CompactGroupAdd
    \/ DestroyNode

Run ==
    \/ \E k \in Keys : Put(k)
    \/ Work

\* Put calls made concurrently by the callers, one statement at a time
Calls ==
    \/ \E c \in Callers : \E k \in Keys : PutLock(c, k)
    \/ \E c \in Callers : PutWal(c)
    \/ \E c \in Callers : PutInsert(c)

\* Tree.Put with the insert placed before the wal append: the entry is in the
\* buffer when the error is returned
PutFailInserted(key) ==
    /\ nPuts < MaxPuts
    /\ faults < MaxFaults
    /\ faults' = faults + 1
    /\ nPuts' = nPuts + 1
    /\ putErr' = TRUE
    /\ memTable' = MemPut(memTable, key, nPuts + 1)
    /\ UNCHANGED <<conf, call, locks, getCall, memTableIndex, rOnlyMemTable, groups, groupSeq, sstSeq,
                   memCompactC, groupCompactC, closed, pc, cur, destroyQ, closedReaders,
                   walFiles, sstFiles, lastAck, prevAck, kills, closedAt, putCall, applied>>

\* Tree.Put when the wal append fails
PutFail(key) ==
    /\ nPuts < MaxPuts
    /\ faults < MaxFaults
    /\ faults' = faults + 1
    /\ nPuts' = nPuts + 1
    /\ putErr' = TRUE
    /\ UNCHANGED <<conf, call, locks, getCall, memTable, memTableIndex, rOnlyMemTable, groups, groupSeq, sstSeq,
                   memCompactC, groupCompactC, closed, pc, cur, destroyQ, closedReaders,
                   walFiles, sstFiles, lastAck, prevAck, kills, closedAt, putCall, applied>>

\* the I/O failures
Fail ==
    \/ \E k \in Keys : PutFail(k)
    \/ \E w \in memCompactC : FlushRouteFail(w)
    \/ FlushWriteFail
    \/ \E id \in GroupIDs : \E plan \in FaultPlans(id) : CompactGroupFail(id, plan)

Init == InitWith(ConfCreateSSTFiles)
Next == Run
Spec == Init /\ [][Next]_vars

NextFault == Run \/ Fail
SpecFault == Init /\ [][NextFault]_vars

InitSmall == InitWith(ConfSimpleSSTFileRW)
SpecSmall == InitSmall /\ [][Next]_vars

NextClose == Run \/ Close \/ CompactorStop
SpecClose == Init /\ [][NextClose]_vars

InitKill == InitWith(ConfTwoGroups)
NextKill == Run \/ Restart
SpecKill == InitKill /\ [][NextKill]_vars

InitSSTSize2 == InitWith(ConfSSTSize2)
SpecSSTSize2 == InitSSTSize2 /\ [][Next]_vars

InitRouting == InitWith(ConfRouting)
SpecRouting == InitRouting /\ [][Next]_vars

\* the configuration of TestSimpleSSTFileRW, with the process killed and restarted
SpecSmallKill == InitSmall /\ [][NextKill]_vars

\* The directory an earlier process of configuration ConfRatio left after
\* EarlierSegs Puts of key 1 and a Close: each Put was one buffer and one segment
\* of group 1, and the wal file of the last, empty buffer remains.
EarlierFiles ==
    {[name |-> sstFile(1, i), kvs |-> <<[Key |-> 1, Value |-> MaxPuts + i]>>] :
        i \in 1..EarlierSegs}

\* NewTree on that directory
InitRatio ==
    /\ conf = ConfRatio
    /\ sstFiles = EarlierFiles
    /\ walFiles = (walFile(EarlierSegs) :> <<>>)
    /\ groups = constructTree.groups
    /\ groupSeq = constructTree.groupSeq
    /\ sstSeq = constructTree.sstSeq
    /\ memTable = restoreMemTable.memTable
    /\ memTableIndex = restoreMemTable.memTableIndex
    /\ rOnlyMemTable = restoreMemTable.rOnly
    /\ memCompactC = {}
    /\ groupCompactC = EmptyBag
    /\ closed = FALSE
    /\ pc = "idle"
    /\ cur = IdleCur
    /\ destroyQ = <<>>
    /\ closedReaders = {}
    /\ lastAck = [k \in Keys |-> IF k = 1 THEN MaxPuts + EarlierSegs ELSE Nil]
    /\ prevAck = [k \in Keys |-> IF k = 1 THEN MaxPuts + EarlierSegs - 1 ELSE Nil]
    /\ nPuts = 0
    /\ faults = 0
    /\ kills = <<>>
    /\ closedAt = NotClosed
    /\ putErr = FALSE
    /\ putCall = NoCalls
    /\ applied = <<>>
    /\ call = NoCall
    /\ locks = Unlocked
    /\ getCall = NoGets

SpecRatio == InitRatio /\ [][Next]_vars

\* ------------------------------------------------- a Group used directly
\* The segments handed to AddNode and RemoveNode: for every seq and every key
\* range a segment of group 1 that holds the two ends of the range.
TestNodes ==
    {createNodeFromSST(1, s, IF a = b THEN <<[Key |-> a, Value |-> s]>>
                             ELSE <<[Key |-> a, Value |-> s], [Key |-> b, Value |-> s]>>) :
        <<s, a, b>> \in {t \in (1..MaxMembers) \X Keys \X Keys : t[2] <= t[3]}}

\* g.AddNode(node) on the one group, for a segment whose file is not a member's
GroupAddNode(node) ==
    /\ Len(groups[1].nodes) < MaxMembers
    /\ \A i \in DOMAIN groups[1].nodes : groups[1].nodes[i].file # node.file
    /\ groups' = <<AddNode(groups[1], node)>>
    /\ call' = [op |-> "AddNode", node |-> node, ret |-> TRUE]
    /\ UNCHANGED <<conf, locks, getCall, memTable, memTableIndex, rOnlyMemTable, groupSeq, sstSeq,
                   memCompactC, groupCompactC, closed, pc, cur, destroyQ, closedReaders,
                   walFiles, sstFiles, lastAck, prevAck, nPuts, faults, kills, closedAt,
                   putErr, putCall, applied>>

\* g.RemoveNode(node) on the one group, for any segment
GroupRemoveNode(node) ==
    /\ groups' = <<RemoveNode(groups[1], node)>>
    /\ call' = [op |-> "RemoveNode", node |-> node, ret |-> RemoveNodeFound(groups[1], node)]
    /\ UNCHANGED <<conf, locks, getCall, memTable, memTableIndex, rOnlyMemTable, groupSeq, sstSeq,
                   memCompactC, groupCompactC, closed, pc, cur, destroyQ, closedReaders,
                   walFiles, sstFiles, lastAck, prevAck, nPuts, faults, kills, closedAt,
                   putErr, putCall, applied>>

\* NewGroup(1, conf), with nothing else of a tree
InitGroup ==
    /\ conf = ConfCreateSSTFiles
    /\ groups = <<NewGroup(1)>>
    /\ groupSeq = 1
    /\ call = NoCall
    /\ locks = Unlocked
    /\ getCall = NoGets
    /\ memTable = EmptyTable
    /\ memTableIndex = 0
    /\ rOnlyMemTable = <<>>
    /\ sstSeq = 0
    /\ memCompactC = {}
    /\ groupCompactC = EmptyBag
    /\ closed = FALSE
    /\ pc = "idle"
    /\ cur = IdleCur
    /\ destroyQ = <<>>
    /\ closedReaders = {}
    /\ walFiles = (walFile(0) :> <<>>)
    /\ sstFiles = {}
    /\ lastAck = [k \in Keys |-> Nil]
    /\ prevAck = [k \in Keys |-> Nil]
    /\ nPuts = 0
    /\ faults = 0
    /\ kills = <<>>
    /\ closedAt = NotClosed
    /\ putErr = FALSE
    /\ putCall = NoCalls
    /\ applied = <<>>

NextGroup ==
    \/ \E node \in TestNodes : GroupAddNode(node)
    \/ \E node \in TestNodes : GroupRemoveNode(node)

\* any sequence of AddNode and RemoveNode calls on one Group
SpecGroup == InitGroup /\ [][NextGroup]_vars

\* ------------------------------------------------- a Node used directly
SegKeys == 1..MaxSegKey
BlockSizes == {2, 4, 6}

\* the entries of a segment that holds the keys of S, each with its key as value
SegKVs(S) == [i \in 1..Cardinality(S) |-> [Key |-> SortedSeq(S)[i], Value |-> SortedSeq(S)[i]]]

\* the one segment of the tree
TheNode == groups[1].nodes[1]

\* NewTree on a directory that holds one segment, written with data blocks of
\* one, two or three entries
InitNode ==
    \E S \in (SUBSET SegKeys) \ {{}} : \E b \in BlockSizes :
        /\ conf = [ConfCreateSSTFiles EXCEPT !.SSTDataBlockSize = b]
        /\ sstFiles = {[name |-> sstFile(1, 1), kvs |-> SegKVs(S)]}
        /\ walFiles = (walFile(0) :> <<>>)
        /\ groups = constructTree.groups
        /\ groupSeq = constructTree.groupSeq
        /\ sstSeq = constructTree.sstSeq
        /\ call = NoCall
        /\ locks = Unlocked
        /\ getCall = NoGets
        /\ memTable = EmptyTable
        /\ memTableIndex = 0
        /\ rOnlyMemTable = <<>>
        /\ memCompactC = {}
        /\ groupCompactC = EmptyBag
        /\ closed = FALSE
        /\ pc = "idle"
        /\ cur = IdleCur
        /\ destroyQ = <<>>
        /\ closedReaders = {}
        /\ lastAck = [k \in Keys |-> Nil]
        /\ prevAck = [k \in Keys |-> Nil]
        /\ nPuts = 0
        /\ faults = 0
        /\ kills = <<>>
        /\ closedAt = NotClosed
        /\ putErr = FALSE
        /\ putCall = NoCalls
        /\ applied = <<>>

\* n.Get(key) on the segment
NodeGetCall(key) ==
    /\ call' = [op |-> "Get", key |-> key, ret |-> NodeGet(TheNode, key)]
    /\ UNCHANGED <<conf, locks, getCall, memTable, memTableIndex, rOnlyMemTable, groups, groupSeq, sstSeq,
                   memCompactC, groupCompactC, closed, pc, cur, destroyQ, closedReaders,
                   walFiles, sstFiles, lastAck, prevAck, nPuts, faults, kills, closedAt,
                   putErr, putCall, applied>>

\* n.binarySearchIndex(key, 0, len(n.index)-1) on the segment
SearchCall(key) ==
    /\ call' = [op |-> "binarySearchIndex", key |-> key,
                ret |-> binarySearchIndex(TheNode.index, key, 1, Len(TheNode.index))]
    /\ UNCHANGED <<conf, locks, getCall, memTable, memTableIndex, rOnlyMemTable, groups, groupSeq, sstSeq,
                   memCompactC, groupCompactC, closed, pc, cur, destroyQ, closedReaders,
                   walFiles, sstFiles, lastAck, prevAck, nPuts, faults, kills, closedAt,
                   putErr, putCall, applied>>

NextNode ==
    \/ \E key \in SegKeys : NodeGetCall(key)
    \/ \E key \in SegKeys : SearchCall(key)

\* lookups on the segment of a tree that does nothing else
SpecNode == InitNode /\ [][NextNode]_vars

\* ------------------------------------- the engine, one lock call at a time
\* Tree.Put by caller c: dataLock.Lock() is called
LPutCall(c, key) ==
    /\ nPuts < MaxPuts
    /\ putCall[c].pc = "out"
    /\ putCall' = [putCall EXCEPT ![c] = [pc |-> "wait", key |-> key, value |-> nPuts + 1]]
    /\ nPuts' = nPuts + 1
    /\ locks' = [locks EXCEPT !.data = LockCall(@, Putter(c))]
    /\ UNCHANGED <<conf, call, getCall, memTable, memTableIndex, rOnlyMemTable, groups,
                   groupSeq, sstSeq, memCompactC, groupCompactC, closed, pc, cur, destroyQ,
                   closedReaders, walFiles, sstFiles, lastAck, prevAck, faults, kills,
                   closedAt, putErr, applied>>

\* Tree.Put by caller c: Lock() returns; the wal append, the insert, the size
\* test with refreshMemTableLocked, and the deferred Unlock()
LPut(c) ==
    LET key == putCall[c].key
        value == putCall[c].value
        written == MemPut(memTable, key, value)
        record == [Key |-> key, Value |-> value]
    IN  /\ putCall[c].pc = "wait"
        /\ Grantable(locks.data, Putter(c))
        /\ locks' = [locks EXCEPT !.data = Passed(@, Putter(c))]
        /\ putCall' = [putCall EXCEPT ![c] = NoCalls[c]]
        /\ putErr' = FALSE
        /\ prevAck' = [prevAck EXCEPT ![key] = lastAck[key]]
        /\ lastAck' = [lastAck EXCEPT ![key] = value]
        /\ IF ~OverThreshold(MemSize(written))
           THEN /\ memTable' = written
                /\ applied' = Append(applied, record)
                /\ walFiles' = [walFiles EXCEPT ![walFile(memTableIndex)] = Append(@, record)]
                /\ UNCHANGED <<rOnlyMemTable, memCompactC, memTableIndex>>
           ELSE /\ applied' = <<>>
                /\ rOnlyMemTable' = Append(rOnlyMemTable, oldItem(written))
                /\ memCompactC' = memCompactC \cup {oldItem(written).walFile}
                /\ memTableIndex' = memTableIndex + 1
                /\ memTable' = EmptyTable
                /\ walFiles' = [i \in DOMAIN walFiles \cup {walFile(memTableIndex + 1)} |->
                                  IF i = walFile(memTableIndex)
                                  THEN Append(walFiles[i], record)
                                  ELSE IF i \in DOMAIN walFiles THEN walFiles[i] ELSE <<>>]
        /\ UNCHANGED <<conf, call, getCall, groups, groupSeq, sstSeq, groupCompactC, closed,
                       pc, cur, destroyQ, closedReaders, sstFiles, nPuts, faults, kills,
                       closedAt>>

\* what a Get call leaves unchanged
GetFrame ==
    UNCHANGED <<conf, call, memTable, memTableIndex, rOnlyMemTable, groups, groupSeq, sstSeq,
                memCompactC, groupCompactC, closed, pc, cur, destroyQ, closedReaders,
                walFiles, sstFiles, lastAck, prevAck, nPuts, faults, kills, closedAt,
                putErr, putCall, applied>>

\* Tree.Get by reader r: dataLock.RLock() is called
LGetCall(r, key) ==
    /\ getCall[r].pc = "out"
    /\ getCall' = [getCall EXCEPT ![r] = [NoGets[r] EXCEPT !.pc = "data", !.key = key]]
    /\ locks' = [locks EXCEPT !.data = RLockCall(@, Getter(r))]
    /\ GetFrame

\* Tree.Get: with dataLock read-held, the active buffer and the immutable queue;
\* RUnlock(), and groupLock.RLock() is called when no buffer has the key
LGetMem(r) ==
    LET key == getCall[r].key
        found == MemGet(memTable, key).ok
                     \/ ROnlyScan(rOnlyMemTable, Len(rOnlyMemTable), key).ok
    IN  /\ getCall[r].pc = "data"
        /\ Getter(r) \in locks.data.r
        /\ IF found
           THEN /\ getCall' = [getCall EXCEPT ![r] = NoGets[r]]
                /\ locks' = [locks EXCEPT !.data = RUnlock(@, Getter(r))]
           ELSE /\ getCall' = [getCall EXCEPT ![r].pc = "groups"]
                /\ locks' = [locks EXCEPT !.data = RUnlock(@, Getter(r)),
                                          !.group = RLockCall(@, Getter(r))]
        /\ GetFrame

\* Tree.Get's loop over the groups going on from group index gi: Group.Get of
\* the group before it calls nodeLock.RLock(); after the first group the
\* deferred groupLock.RUnlock() runs and Get returns
GetNextGroup(r, gi, lk) ==
    IF gi > 1
    THEN /\ getCall' = [getCall EXCEPT ![r] = [NoGets[r] EXCEPT !.pc = "node",
                                                 !.key = getCall[r].key, !.gi = gi - 1]]
         /\ locks' = [lk EXCEPT !.node[groups[gi - 1].id] = RLockCall(@, Getter(r))]
    ELSE /\ getCall' = [getCall EXCEPT ![r] = NoGets[r]]
         /\ locks' = [lk EXCEPT !.group = RUnlock(@, Getter(r))]

\* Tree.Get: with groupLock read-held, the loop over the groups begins
LGetGroups(r) ==
    /\ getCall[r].pc = "groups"
    /\ Getter(r) \in locks.group.r
    /\ GetNextGroup(r, Len(groups) + 1, locks)
    /\ GetFrame

\* Group.Get: with nodeLock read-held, the range test
LGetNode(r) ==
    LET gi == getCall[r].gi
        g == groups[gi]
    IN  /\ getCall[r].pc = "node"
        /\ Getter(r) \in locks.node[g.id].r
        /\ IF ~keyInRange(g, getCall[r].key)
           THEN GetNextGroup(r, gi, [locks EXCEPT !.node[g.id] = RUnlock(@, Getter(r))])
           ELSE /\ getCall' = [getCall EXCEPT ![r].pc = "probe", ![r].j = Len(g.nodes),
                                              ![r].saw = g.nodes]
                /\ UNCHANGED locks
        /\ GetFrame

\* Group.Get: g.nodes[j].Get(key), the read of one segment; an index outside
\* the slice is a run-time panic
LGetProbe(r) ==
    LET gi == getCall[r].gi
        j == getCall[r].j
        g == groups[gi]
        res == NodeGet(g.nodes[j], getCall[r].key)
        unlocked == [locks EXCEPT !.node[g.id] = RUnlock(@, Getter(r))]
    IN  /\ getCall[r].pc = "probe"
        /\ IF j > Len(g.nodes)
           THEN /\ getCall' = [getCall EXCEPT ![r].pc = "panic"]
                /\ UNCHANGED locks
           ELSE IF res.err \/ res.ok
           THEN /\ getCall' = [getCall EXCEPT ![r] = NoGets[r]]
                /\ locks' = [unlocked EXCEPT !.group = RUnlock(@, Getter(r))]
           ELSE IF j > 1
           THEN /\ getCall' = [getCall EXCEPT ![r].j = j - 1]
                /\ UNCHANGED locks
           ELSE GetNextGroup(r, gi, unlocked)
        /\ GetFrame

\* RLock() would return at once
Readable(L) == L.w = NoProc /\ L.wq = <<>>

\* compact receives an item; flushMemTable calls findOrCreateGroup, which calls
\* groupLock.Lock(); for an empty buffer compactMemTable goes on to dataLock.Lock()
LFlushRecv(w) ==
    LET item == ItemOf(w)
    IN  /\ pc = "idle"
        /\ w \in memCompactC
        /\ memCompactC' = memCompactC \ {w}
        /\ cur' = [IdleCur EXCEPT !.walFile = w, !.memTable = item.memTable]
        /\ IF Len(MemAll(item.memTable)) = 0
           THEN /\ pc' = "l_pop"
                /\ locks' = [locks EXCEPT !.data = LockCall(@, Compactor)]
           ELSE /\ pc' = "l_fo"
                /\ locks' = [locks EXCEPT !.group = LockCall(@, Compactor)]
        /\ UNCHANGED <<conf, call, getCall, memTable, memTableIndex, rOnlyMemTable, groups,
                       groupSeq, sstSeq, groupCompactC, closed, destroyQ, closedReaders,
                       walFiles, sstFiles, lastAck, prevAck, nPuts, faults, kills, closedAt,
                       putErr, putCall, applied>>

\* findOrCreateGroup: groupLock.Lock() returns
LFindGroupLock ==
    /\ pc = "l_fo"
    /\ Grantable(locks.group, Compactor)
    /\ locks' = [locks EXCEPT !.group = Granted(@, Compactor)]
    /\ pc' = "l_fo_in"
    /\ UNCHANGED <<conf, call, getCall, memTable, memTableIndex, rOnlyMemTable, groups,
                   groupSeq, sstSeq, memCompactC, groupCompactC, closed, cur, destroyQ,
                   closedReaders, walFiles, sstFiles, lastAck, prevAck, nPuts, faults, kills,
                   closedAt, putErr, putCall, applied>>

\* the groups findOrCreateGroup's loop looks at (NodeCount, StartKey and EndKey
\* read-lock the group's nodeLock): all up to the first that fits
Scanned(startKey, endKey) ==
    LET fit == {i \in DOMAIN groups :
                   /\ Len(groups[i].nodes) < conf.GroupSize
                   /\ \/ groups[i].startKey = Nil
                      \/ groups[i].endKey = Nil
                      \/ ~(endKey < groups[i].startKey \/ startKey > groups[i].endKey)}
    IN  IF fit = {} THEN DOMAIN groups ELSE 1..Min(fit)

\* findOrCreateGroup with groupLock held, its deferred Unlock(); then
\* flushMemTable up to group.AddNode, which calls nodeLock.Lock()
LFindGroup ==
    LET allKVs == MemAll(cur.memTable)
        startKey == allKVs[1].Key
        endKey == allKVs[Len(allKVs)].Key
        r == findOrCreateGroup(startKey, endKey)
    IN  /\ pc = "l_fo_in"
        /\ \A i \in Scanned(startKey, endKey) : Readable(locks.node[groups[i].id])
        /\ groups' = r.groups
        /\ groupSeq' = r.groupSeq
        /\ sstSeq' = sstSeq + 1
        /\ cur' = [cur EXCEPT !.gid = r.id, !.seq = sstSeq + 1]
        /\ sstFiles' = WriteSST(sstFiles, sstFile(r.id, sstSeq + 1), allKVs)
        /\ locks' = [locks EXCEPT !.group = Unlock(@, Compactor),
                                  !.node[r.id] = LockCall(@, Compactor)]
        /\ pc' = "l_add"
        /\ UNCHANGED <<conf, call, getCall, memTable, memTableIndex, rOnlyMemTable,
                       memCompactC, groupCompactC, closed, destroyQ, closedReaders, walFiles,
                       lastAck, prevAck, nPuts, faults, kills, closedAt, putErr, putCall,
                       applied>>

\* group.AddNode keeping nodeLock: tryTriggerGroupCompact is called with it held
LFlushAddHolding ==
    LET at == GroupAt(groups, cur.gid)
        newNode == createNodeFromSST(cur.gid, cur.seq, MemAll(cur.memTable))
    IN  /\ pc = "l_add"
        /\ Grantable(locks.node[cur.gid], Compactor)
        /\ groups' = [groups EXCEPT ![at] = AddNode(groups[at], newNode)]
        /\ cur' = [cur EXCEPT !.added = TRUE]
        /\ locks' = [locks EXCEPT !.node[cur.gid] = Granted(@, Compactor),
                                  !.group = RLockCall(@, Compactor)]
        /\ pc' = "l_trig"
        /\ UNCHANGED <<conf, call, getCall, memTable, memTableIndex, rOnlyMemTable, groupSeq,
                       sstSeq, memCompactC, groupCompactC, closed, destroyQ, closedReaders,
                       walFiles, sstFiles, lastAck, prevAck, nPuts, faults, kills, closedAt,
                       putErr, putCall, applied>>

\* group.AddNode: nodeLock.Lock() returns, the node is added, the deferred
\* Unlock(); then tryTriggerGroupCompact calls groupLock.RLock()
LFlushAdd ==
    LET at == GroupAt(groups, cur.gid)
        newNode == createNodeFromSST(cur.gid, cur.seq, MemAll(cur.memTable))
    IN  /\ pc = "l_add"
        /\ Grantable(locks.node[cur.gid], Compactor)
        /\ groups' = [groups EXCEPT ![at] = AddNode(groups[at], newNode)]
        /\ cur' = [cur EXCEPT !.added = TRUE]
        /\ locks' = [locks EXCEPT !.node[cur.gid] = Passed(@, Compactor),
                                  !.group = RLockCall(@, Compactor)]
        /\ pc' = "l_trig"
        /\ UNCHANGED <<conf, call, getCall, memTable, memTableIndex, rOnlyMemTable, groupSeq,
                       sstSeq, memCompactC, groupCompactC, closed, destroyQ, closedReaders,
                       walFiles, sstFiles, lastAck, prevAck, nPuts, faults, kills, closedAt,
                       putErr, putCall, applied>>

\* tryTriggerGroupCompact: with groupLock read-held, group.ShouldCompact calls
\* nodeLock.RLock()
LTrigger ==
    /\ pc = "l_trig"
    /\ Compactor \in locks.group.r
    /\ locks' = [locks EXCEPT !.node[cur.gid] = RLockCall(@, Compactor)]
    /\ pc' = "l_trig_in"
    /\ UNCHANGED <<conf, call, getCall, memTable, memTableIndex, rOnlyMemTable, groups,
                   groupSeq, sstSeq, memCompactC, groupCompactC, closed, cur, destroyQ,
                   closedReaders, walFiles, sstFiles, lastAck, prevAck, nPuts, faults, kills,
                   closedAt, putErr, putCall, applied>>

\* group.ShouldCompact with nodeLock read-held, the signal, the two deferred
\* RUnlock(); then compactMemTable calls dataLock.Lock()
LTriggerDo ==
    LET g == groups[GroupAt(groups, cur.gid)]
    IN  /\ pc = "l_trig_in"
        /\ Compactor \in locks.node[cur.gid].r
        /\ groupCompactC' = IF ShouldCompact(g)
                            THEN groupCompactC (+) SetToBag({cur.gid})
                            ELSE groupCompactC
        /\ locks' = [locks EXCEPT !.node[cur.gid] = RUnlock(@, Compactor),
                                  !.group = RUnlock(@, Compactor),
                                  !.data = LockCall(@, Compactor)]
        /\ pc' = "l_pop"
        /\ UNCHANGED <<conf, call, getCall, memTable, memTableIndex, rOnlyMemTable, groups,
                       groupSeq, sstSeq, memCompactC, closed, cur, destroyQ, closedReaders,
                       walFiles, sstFiles, lastAck, prevAck, nPuts, faults, kills, closedAt,
                       putErr, putCall, applied>>

\* compactMemTable: dataLock.Lock() returns, the item leaves rOnlyMemTable, Unlock()
LFlushPop ==
    LET at == {i \in DOMAIN rOnlyMemTable : rOnlyMemTable[i].walFile = cur.walFile}
    IN  /\ pc = "l_pop"
        /\ Grantable(locks.data, Compactor)
        /\ locks' = [locks EXCEPT !.data = Passed(@, Compactor)]
        /\ rOnlyMemTable' = IF at = {} THEN rOnlyMemTable
                            ELSE RemoveAt(rOnlyMemTable, Min(at))
        /\ pc' = "fl_rmwal"
        /\ UNCHANGED <<conf, call, getCall, memTable, memTableIndex, groups, groupSeq, sstSeq,
                       memCompactC, groupCompactC, closed, cur, destroyQ, closedReaders,
                       walFiles, sstFiles, lastAck, prevAck, nPuts, faults, kills, closedAt,
                       putErr, putCall, applied>>

\* compact receives a group id; compactGroup calls groupLock.Lock()
LCompactRecv(groupID) ==
    /\ pc = "idle"
    /\ BagIn(groupID, groupCompactC)
    /\ groupCompactC' = groupCompactC (-) SetToBag({groupID})
    /\ cur' = [IdleCur EXCEPT !.gid = groupID]
    /\ locks' = [locks EXCEPT !.group = LockCall(@, Compactor)]
    /\ pc' = "l_cg"
    /\ UNCHANGED <<conf, call, getCall, memTable, memTableIndex, rOnlyMemTable, groups,
                   groupSeq, sstSeq, memCompactC, closed, destroyQ, closedReaders, walFiles,
                   sstFiles, lastAck, prevAck, nPuts, faults, kills, closedAt, putErr,
                   putCall, applied>>

\* compactGroup: groupLock.Lock() returns
LCompactLock ==
    /\ pc = "l_cg"
    /\ Grantable(locks.group, Compactor)
    /\ locks' = [locks EXCEPT !.group = Granted(@, Compactor)]
    /\ pc' = "l_cg_in"
    /\ UNCHANGED <<conf, call, getCall, memTable, memTableIndex, rOnlyMemTable, groups,
                   groupSeq, sstSeq, memCompactC, groupCompactC, closed, cur, destroyQ,
                   closedReaders, walFiles, sstFiles, lastAck, prevAck, nPuts, faults, kills,
                   closedAt, putErr, putCall, applied>>

\* compactGroup with groupLock held: the group is looked up, GetNodes read-locks
\* its nodeLock, groupLock.Unlock(); with two nodes or more GetAllKVs calls
\* nodeLock.RLock()
LCompactNodes ==
    /\ pc = "l_cg_in"
    /\ HasGroup(groups, cur.gid) => Readable(locks.node[cur.gid])
    /\ IF NothingToCompact(cur.gid)
       THEN /\ locks' = [locks EXCEPT !.group = Unlock(@, Compactor)]
            /\ cur' = IdleCur
            /\ pc' = "idle"
       ELSE /\ locks' = [locks EXCEPT !.group = Unlock(@, Compactor),
                                      !.node[cur.gid] = RLockCall(@, Compactor)]
            /\ cur' = [cur EXCEPT !.nodes = groups[GroupAt(groups, cur.gid)].nodes]
            /\ pc' = "l_cg_read"
    /\ UNCHANGED <<conf, call, getCall, memTable, memTableIndex, rOnlyMemTable, groups,
                   groupSeq, sstSeq, memCompactC, groupCompactC, closed, destroyQ,
                   closedReaders, walFiles, sstFiles, lastAck, prevAck, nPuts, faults, kills,
                   closedAt, putErr, putCall, applied>>

\* GetAllKVs with nodeLock read-held and its RUnlock(); the output segments are
\* written; replaceGroupNodes' first RemoveNode calls nodeLock.Lock()
LCompactRead ==
    LET g == groups[GroupAt(groups, cur.gid)]
        all == GetAllKVs(g)
        chunks == Chunks(all.kvs, <<>>, 0, <<>>)
        newNodes == [i \in 1..Len(chunks) |-> createNodeFromSST(cur.gid, sstSeq + i, chunks[i])]
    IN  /\ pc = "l_cg_read"
        /\ Compactor \in locks.node[cur.gid].r
        /\ IF all.err \/ Len(all.kvs) = 0
           THEN /\ locks' = [locks EXCEPT !.node[cur.gid] = RUnlock(@, Compactor)]
                /\ cur' = IdleCur
                /\ pc' = "idle"
                /\ UNCHANGED <<sstSeq, sstFiles>>
           ELSE /\ locks' = [locks EXCEPT !.node[cur.gid] =
                                LockCall(RUnlock(@, Compactor), Compactor)]
                /\ sstSeq' = sstSeq + Len(chunks)
                /\ sstFiles' = WriteChunks(sstFiles, cur.gid, sstSeq + 1, chunks)
                /\ cur' = [cur EXCEPT !.toRemove = cur.nodes, !.toAdd = newNodes]
                /\ pc' = "l_cg_rm"
        /\ UNCHANGED <<conf, call, getCall, memTable, memTableIndex, rOnlyMemTable, groups,
                       groupSeq, memCompactC, groupCompactC, closed, destroyQ, closedReaders,
                       walFiles, lastAck, prevAck, nPuts, faults, kills, closedAt, putErr,
                       putCall, applied>>

\* replaceGroupNodes: one group.RemoveNode(oldNode); the next RemoveNode or the
\* first AddNode calls nodeLock.Lock(); after the last call the destroy
\* goroutine is started
LCompactRemove ==
    LET at == GroupAt(groups, cur.gid)
        more == Tail(cur.toRemove) # <<>>
    IN  /\ pc = "l_cg_rm"
        /\ Grantable(locks.node[cur.gid], Compactor)
        /\ groups' = [groups EXCEPT ![at] = RemoveNode(groups[at], Head(cur.toRemove))]
        /\ IF more \/ cur.toAdd # <<>>
           THEN /\ locks' = [locks EXCEPT !.node[cur.gid] =
                                LockCall(Passed(@, Compactor), Compactor)]
                /\ cur' = [cur EXCEPT !.toRemove = Tail(cur.toRemove)]
                /\ pc' = IF more THEN "l_cg_rm" ELSE "l_cg_add"
                /\ UNCHANGED destroyQ
           ELSE /\ locks' = [locks EXCEPT !.node[cur.gid] = Passed(@, Compactor)]
                /\ destroyQ' = destroyQ \o cur.nodes
                /\ cur' = IdleCur
                /\ pc' = "idle"
        /\ UNCHANGED <<conf, call, getCall, memTable, memTableIndex, rOnlyMemTable, groupSeq,
                       sstSeq, memCompactC, groupCompactC, closed, closedReaders, walFiles,
                       sstFiles, lastAck, prevAck, nPuts, faults, kills, closedAt, putErr,
                       putCall, applied>>

\* replaceGroupNodes: one group.AddNode(newNode)
LCompactAdd ==
    LET at == GroupAt(groups, cur.gid)
    IN  /\ pc = "l_cg_add"
        /\ Grantable(locks.node[cur.gid], Compactor)
        /\ groups' = [groups EXCEPT ![at] = AddNode(groups[at], Head(cur.toAdd))]
        /\ IF Tail(cur.toAdd) # <<>>
           THEN /\ locks' = [locks EXCEPT !.node[cur.gid] =
                                LockCall(Passed(@, Compactor), Compactor)]
                /\ cur' = [cur EXCEPT !.toAdd = Tail(cur.toAdd)]
                /\ UNCHANGED <<pc, destroyQ>>
           ELSE /\ locks' = [locks EXCEPT !.node[cur.gid] = Passed(@, Compactor)]
                /\ destroyQ' = destroyQ \o cur.nodes
                /\ cur' = IdleCur
                /\ pc' = "idle"
        /\ UNCHANGED <<conf, call, getCall, memTable, memTableIndex, rOnlyMemTable, groupSeq,
                       sstSeq, memCompactC, groupCompactC, closed, closedReaders, walFiles,
                       sstFiles, lastAck, prevAck, nPuts, faults, kills, closedAt, putErr,
                       putCall, applied>>

\* the compactor and the destroy goroutine, one lock call at a time
LWork ==
    \/ \E w \in memCompactC : LFlushRecv(w)
    \/ LFindGroupLock
    \/ LFindGroup
    \/ LFlushAdd
    \/ LTrigger
    \/ LTriggerDo
    \/ LFlushPop
    \/ FlushRemoveWal
    \/ \E id \in GroupIDs : LCompactRecv(id)
    \/ LCompactLock
    \/ LCompactNodes
    \/ LCompactRead
    \/ LCompactRemove
    \/ LCompactAdd
    \/ DestroyNode

\* the Put and the Get callers
LCalls ==
    \/ \E c \in Callers : \E k \in Keys : LPutCall(c, k)
    \/ \E c \in Callers : LPut(c)
    \/ \E r \in Readers : \E k \in Keys : LGetCall(r, k)
    \/ \E r \in Readers : LGetMem(r)
    \/ \E r \in Readers : LGetGroups(r)
    \/ \E r \in Readers : LGetNode(r)
    \/ \E r \in Readers : LGetProbe(r)

NextLocks == LCalls \/ LWork
SpecLocks == Init /\ [][NextLocks]_vars

\* WF_vars(FlushWrite), written with the action's enabling condition: FlushWrite
\* is enabled exactly when pc = "fl_write", and it leaves that position.
FlushWriteFair == []<>(pc # "fl_write")

\* The compactor goroutine of a running process is scheduled fairly: it goes on
\* with the flush or the replacement it is in, and it takes an item that stays
\* ready on memCompactC. Nothing is assumed of the select between two ready
\* channels.
CompactorFair ==
    /\ WF_vars(\E w \in memCompactC : FlushRoute(w))
    /\ FlushWriteFair
    /\ WF_vars(FlushPop)
    /\ WF_vars(FlushRemoveWal)
    /\ WF_vars(CompactGroupRemove)
    /\ WF_vars(CompactGroupAdd)

SpecFair == Init /\ [][Next]_vars /\ CompactorFair

NextPut == Calls \/ Work
SpecPut == Init /\ [][NextPut]_vars

\* The goroutines of a running process are scheduled fairly: the destroy
\* goroutine, which never blocks, gets to destroy the node at the head of its list.
SpecLive == Init /\ [][Next]_vars /\ WF_vars(DestroyNode)

\* ------------------------------------------------------------- claims
ReadsLastAck(k) == lastAck[k] # Nil => TreeGet(k) = Hit(lastAck[k])

Swapping == pc \in {"cg_remove", "cg_add"}

\* C1 (read-your-write): while the tree is open, in every state reached by any
\* interleaving of Puts, rotations, flushes and group compactions, Tree.Get of a
\* key returns the value of the last acknowledged Put of that key.
C1_ReadYourWrite == ~closed => \A k \in Keys : ReadsLastAck(k)

\* C2 (last-write-wins): a key written by Put(k, v1) and then by Put(k, v2) reads
\* as v2 wherever the two versions live; stated for the states in which no
\* segment swap of a compaction is in progress.
C2_LastWriteWins ==
    (~closed /\ ~Swapping) => \A k \in Keys : prevAck[k] # Nil => ReadsLastAck(k)

\* C3 (durability): after a kill and a restart on the same directory, before the
\* new compactor has done anything, Tree.Get returns for every key the value of
\* its last acknowledged Put; stated for the kills that hit a tree on which
\* every such read was right.
C3_Durability ==
    (kills # <<>> /\ kills[Len(kills)].readOk /\ sstSeq = kills[Len(kills)].sstSeq /\ pc = "idle")
        => \A k \in Keys : ReadsLastAck(k)

KeysOfNodes(nodes) == {k \in Keys : \E i \in DOMAIN nodes : \E j \in DOMAIN nodes[i].kvs :
                          nodes[i].kvs[j].Key = k}
ValueIn(node, k) == node.kvs[CHOOSE j \in DOMAIN node.kvs : node.kvs[j].Key = k].Value
Holds(node, k) == \E j \in DOMAIN node.kvs : node.kvs[j].Key = k

\* C4 (atomic swap): while compactGroup replaces the segments of a group, a
\* Group.Get of a key the group held before the compaction never misses.
C4_AtomicSwap ==
    Swapping => \A k \in KeysOfNodes(cur.nodes) :
                    GroupGet(groups[GroupAt(groups, cur.gid)], k).ok

\* the input segment with the highest seq among those that hold k
NewestHolder(nodes, k) ==
    CHOOSE i \in DOMAIN nodes :
        /\ Holds(nodes[i], k)
        /\ \A j \in DOMAIN nodes : Holds(nodes[j], k) => nodes[j].seq <= nodes[i].seq

\* C5 (no resurrection): in the output segments of compactGroup every key has
\* the value it has in the most recently flushed (highest seq) input segment
\* that holds it.
C5_NoResurrection ==
    (pc = "cg_remove" /\ cur.toRemove = cur.nodes) =>
        \A k \in KeysOfNodes(cur.nodes) :
            \A i \in DOMAIN cur.toAdd :
                Holds(cur.toAdd[i], k) =>
                    ValueIn(cur.toAdd[i], k) = ValueIn(cur.nodes[NewestHolder(cur.nodes, k)], k)

ReadableKeys(nodes) == {k \in Keys : GroupGet(AddNodes(NewGroup(0), nodes), k).ok}

\* C6 (no key dropped): the keys readable from the segments compactGroup installs
\* are the keys readable from the segments it replaces.
C6_NoKeyDropped ==
    (pc = "cg_remove" /\ cur.toRemove = cur.nodes) =>
        ReadableKeys(cur.toAdd) = ReadableKeys(cur.nodes)

\* C7 (flush acknowledgement order): an item leaves the immutable queue, and its
\* wal file is deleted, only after a segment holding all its entries is in a group.
C7_FlushAckOrder ==
    pc = "fl_rmwal" =>
        \E i \in DOMAIN groups : \E j \in DOMAIN groups[i].nodes :
            \A k \in MemKeys(cur.memTable) : Holds(groups[i].nodes[j], k)

Quiescent ==
    /\ pc = "idle"
    /\ memCompactC = {}
    /\ groupCompactC = EmptyBag
    /\ rOnlyMemTable = <<>>

\* C8 (group cap): with no flush and no compaction in flight or pending, every
\* group holds at most GroupSize segments.
C8_GroupCap ==
    Quiescent => \A i \in DOMAIN groups : Len(groups[i].nodes) <= conf.GroupSize

\* C9 (shutdown ordering): when Close runs while the compactor is in the middle
\* of a flush or a group compaction, that operation adds no segment to a group
\* Close has closed: every segment of every group is one whose handle Close
\* closed. Stated for the states in which no operation has started since Close.
C9_ShutdownOrder ==
    (closed /\ closedAt.pc # "idle" /\ sstSeq = closedAt.sstSeq) =>
        \A i \in DOMAIN groups : \A j \in DOMAIN groups[i].nodes :
            ~NodeOpen(groups[i].nodes[j])

\* C10 (no flush after Close): after Close the idle compactor starts no new
\* flush and no new compaction.
C10_NoWorkAfterClose ==
    [][(closed /\ pc = "idle") => pc' \in {"idle", "stopped"}]_vars

\* C11 (wal failure): a Put call whose wal append fails returns the error and
\* leaves the active buffer, the immutable queue, memTableIndex and the flush
\* channel as they were: nothing is inserted and nothing is rotated.
C11_WalFailure ==
    [][(nPuts' # nPuts /\ putErr') =>
          UNCHANGED <<memTable, rOnlyMemTable, memTableIndex, memCompactC>>]_vars

\* a Put has failed on a buffer that holds entries
C11_Witness == putErr /\ MemKeys(memTable) # {}

\* a wal file on disk belongs to the active buffer, to an item of the immutable
\* queue, or to the flush whose os.Remove is the compactor's next step
WalOwned(w) ==
    \/ w = walFile(memTableIndex)
    \/ \E i \in DOMAIN rOnlyMemTable : rOnlyMemTable[i].walFile = w
    \/ pc = "fl_rmwal" /\ cur.walFile = w

OnDisk(name) == \E f \in sstFiles : f.name = name
Replaced(name) == \E i \in DOMAIN destroyQ : destroyQ[i].file = name
SegmentNames == {sstFile(g, q) : g \in 0..MaxNum, q \in 1..MaxNum}

\* C12 (file hygiene): no wal file outlives the flush of its buffer, and, while
\* the process runs, every segment file a completed group compaction replaced
\* is eventually unlinked by the destroy goroutine.
C12_FileHygiene ==
    /\ [](\A w \in DOMAIN walFiles : WalOwned(w))
    /\ \A name \in SegmentNames : (Replaced(name) /\ OnDisk(name)) ~> ~OnDisk(name)

\* a flush has removed its wal file and a compaction's replaced segment is unlinked
C12_Witness ==
    /\ walFile(0) \notin DOMAIN walFiles
    /\ \E name \in closedReaders : ~OnDisk(name) /\ ~Replaced(name)

\* C13 (never-put key): in every reachable state Tree.Get of a key no Put has
\* written reports a miss with a nil error.
C13_NeverPut == \A k \in Keys : lastAck[k] = Nil => TreeGet(k) = Miss

\* a never-put key lies strictly inside the key range of a segment of a group
C13_Witness ==
    \E k \in Keys : /\ lastAck[k] = Nil
                    /\ \E i \in DOMAIN groups : \E j \in DOMAIN groups[i].nodes :
                          groups[i].nodes[j].startKey < k /\ k < groups[i].nodes[j].endKey

Logged == {c \in Callers : putCall[c].pc = "logged"}

\* C14 (wal order): under any interleaving of concurrent Put calls the records
\* of the active wal file are the inserts applied to the active buffer, in the
\* same order, followed by the record of the one call that has appended and not
\* yet inserted; and the buffer holds, for each key, the value of its last insert.
C14_WalOrder ==
    /\ Cardinality(Logged) <= 1
    /\ Logged = {} => walFiles[walFile(memTableIndex)] = applied
    /\ \A c \in Logged :
          walFiles[walFile(memTableIndex)] =
              Append(applied, [Key |-> putCall[c].key, Value |-> putCall[c].value])
    /\ memTable = RestoreToMemtable(applied, EmptyTable)

\* a Put call holds the lock between its wal append and its insert, for a key the
\* buffer already holds, while another caller's Put is still to come
C14_Witness ==
    \E c \in Logged : /\ memTable[putCall[c].key] # Nil
                      /\ nPuts < MaxPuts

\* a step that is a Put call returning nil
PutReturned == nPuts' # nPuts /\ ~putErr' /\ lastAck' # lastAck
Rotated == memTableIndex' # memTableIndex
\* the size of the buffer the Put wrote to, after the insert
SizeAfterInsert ==
    IF Rotated THEN MemSize(rOnlyMemTable'[Len(rOnlyMemTable')].memTable)
    ELSE MemSize(memTable')

\* C15 as stated (rotation threshold in exact arithmetic): a successful Put
\* rotates exactly when, after the insert, size * 5/4 > GroupSSTSize.
C15_ExactThreshold ==
    [][PutReturned => (Rotated <=> SizeAfterInsert * 5 > 4 * conf.GroupSSTSize)]_vars

\* C15 (rotation threshold): a successful Put rotates exactly when, after the
\* insert, the integer quotient (size * 5) / 4, rounded down, exceeds
\* GroupSSTSize, and performs no rotation otherwise.
C15_Threshold ==
    [][PutReturned => (Rotated <=> (SizeAfterInsert * 5) \div 4 > conf.GroupSSTSize)]_vars

\* both cases have happened: a buffer was rotated, and the active buffer holds
\* an entry whose Put did not rotate although size * 5/4 > GroupSSTSize
C15_Witness ==
    /\ rOnlyMemTable # <<>>
    /\ MemKeys(memTable) # {}
    /\ MemSize(memTable) * 5 > 4 * conf.GroupSSTSize

\* C16 (rotation postcondition): a Put that rotates leaves the frozen buffer as
\* the last item of the immutable queue, paired with the wal file of the index
\* it was written under, which holds its records; the items already queued keep
\* their order; memTableIndex grows by exactly 1; the new active buffer is
\* empty and its wal file {memTableIndex}.wal exists and is empty.
C16_RotationPost ==
    [][(PutReturned /\ Rotated) =>
          LET n == Len(rOnlyMemTable)
              frozen == rOnlyMemTable'[n + 1]
          IN  /\ Len(rOnlyMemTable') = n + 1
              /\ SubSeq(rOnlyMemTable', 1, n) = rOnlyMemTable
              /\ frozen.walFile = walFile(memTableIndex)
              /\ \E k \in Keys : frozen.memTable = MemPut(memTable, k, lastAck'[k])
              /\ RestoreToMemtable(walFiles'[frozen.walFile], EmptyTable) = frozen.memTable
              /\ memTableIndex' = memTableIndex + 1
              /\ memTable' = EmptyTable
              /\ walFile(memTableIndex') \in DOMAIN walFiles'
              /\ walFiles'[walFile(memTableIndex')] = <<>>]_vars

\* after a restart, a rotation has pushed a second item behind a queued one
C16_Witness ==
    /\ kills # <<>>
    /\ Len(rOnlyMemTable) = 2
    /\ memTable = EmptyTable
    /\ walFiles[walFile(memTableIndex)] = <<>>

\* the wal paths of the memory buffers: the immutable items', then the active one
BufferWals ==
    [i \in 1..(Len(rOnlyMemTable) + 1) |->
        IF i <= Len(rOnlyMemTable) THEN rOnlyMemTable[i].walFile ELSE walFile(memTableIndex)]

\* C17 (wal/buffer correspondence): memTableIndex never decreases, across Puts
\* and across a restart; a rotation increases it to an index no existing wal
\* file has; and no two memory buffers share a wal path.
C17_WalIndex ==
    /\ [][/\ memTableIndex' >= memTableIndex
          /\ (PutReturned /\ Len(rOnlyMemTable') > Len(rOnlyMemTable)) =>
                /\ memTableIndex' > memTableIndex
                /\ walFile(memTableIndex') \notin DOMAIN walFiles]_vars
    /\ [](\A i, j \in DOMAIN BufferWals : i # j => BufferWals[i] # BufferWals[j])

\* a tree restarted at an index above 0, with an item queued, has rotated again
C17_Witness ==
    /\ kills # <<>>
    /\ kills[1].memTableIndex >= 1
    /\ memTableIndex > kills[1].memTableIndex
    /\ Len(rOnlyMemTable) = 2

\* group i has room and is empty or overlaps [startKey, endKey]
Fits(i, startKey, endKey) ==
    /\ Len(groups[i].nodes) < conf.GroupSize
    /\ \/ groups[i].nodes = <<>>
       \/ ~(endKey < groups[i].startKey \/ startKey > groups[i].endKey)

Fitting(startKey, endKey) == {i \in DOMAIN groups : Fits(i, startKey, endKey)}

RoutedAsStated(startKey, endKey) ==
    LET r == findOrCreateGroup(startKey, endKey)
        n == Len(groups)
    IN  IF Fitting(startKey, endKey) # {}
        THEN r.groups = groups /\ r.id = groups[Min(Fitting(startKey, endKey))].id
        ELSE IF n < conf.MaxGroups
        THEN /\ Len(r.groups) = n + 1
             /\ SubSeq(r.groups, 1, n) = groups
             /\ r.groups[n + 1] = NewGroup(r.id)
             /\ \A i \in DOMAIN groups : groups[i].id # r.id
        ELSE r.groups = groups /\ r.id = groups[n].id

\* C18 (flush routing): for every group list the engine reaches and every key
\* range, findOrCreateGroup returns the first group in list order that has
\* fewer than GroupSize segments and is empty or overlaps the range; with no
\* such group and fewer than MaxGroups groups it appends and returns a new
\* group whose id no group has; otherwise it returns the last group.
C18_Routing ==
    \A startKey, endKey \in Keys : startKey <= endKey => RoutedAsStated(startKey, endKey)

\* one group list on which the three outcomes happen: a range two groups fit,
\* of which the first is not the only one; and, once the list is full, a range
\* no group fits
C18_Witness ==
    /\ Len(groups) = conf.MaxGroups
    /\ \E a, b \in Keys : a <= b /\ Cardinality(Fitting(a, b)) = 2
    /\ \E a, b \in Keys : a <= b /\ Fitting(a, b) = {}

\* C19: in every reachable state, those after a restart that rebuilds the groups
\* from the segment files included, the number of groups is at most MaxGroups.
C19_MaxGroups == Len(groups) <= conf.MaxGroups

\* after a restart, a flush found no group with room while the tree already had
\* MaxGroups groups, and its segment went to the last group
C19_Witness ==
    /\ kills # <<>>
    /\ Len(groups) = conf.MaxGroups
    /\ sstSeq > kills[Len(kills)].sstSeq
    /\ \E i \in DOMAIN groups : Len(groups[i].nodes) > conf.GroupSize

\* a step in which flushMemTable adds the new segment to its group
FlushAdds == pc = "fl_write" /\ pc' = "fl_pop" /\ cur'.added
FlushedCount == Len(groups'[GroupAt(groups', cur.gid)].nodes)
Signalled == groupCompactC' = groupCompactC (+) SetToBag({cur.gid})
NotSignalled == groupCompactC' = groupCompactC

\* C20 as stated: after a flush adds a segment to a group, the group's id is
\* sent on the compaction channel if and only if the group's segment count is
\* at least GroupSize * CompactionRatio in exact arithmetic, and the worker
\* goes on without waiting for the signal to be received.
C20_ExactTrigger ==
    [][FlushAdds =>
          IF FlushedCount * conf.RatioDen >= conf.GroupSize * conf.RatioNum
          THEN Signalled ELSE NotSignalled]_vars

\* C20: after a flush adds a segment to a group, the group's id is sent on the
\* compaction channel if and only if float64(count) >= float64(GroupSize) *
\* CompactionRatio, the product rounded to the nearest float64; the signal is
\* left with a sender goroutine and the worker goes on to pop the buffer.
C20_Trigger ==
    [][FlushAdds =>
          IF F64Geq(FlushedCount, F64Mul(conf.GroupSize, Float64Of(conf.RatioNum, conf.RatioDen)))
          THEN Signalled ELSE NotSignalled]_vars

\* a flush has just signalled a group that is one segment above the exact
\* threshold, and this is the only signal: the flush that brought the group to
\* the exact threshold sent none
C20_Witness ==
    /\ pc = "fl_pop"
    /\ cur.added
    /\ LET n == Len(groups[GroupAt(groups, cur.gid)].nodes)
       IN  (n - 1) * conf.RatioDen = conf.GroupSize * conf.RatioNum
    /\ CopiesIn(cur.gid, groupCompactC) = 1

\* a step in which compactGroup returns from replaceGroupNodes
CompactionCompletes == pc \in {"cg_remove", "cg_add"} /\ pc' = "idle"

\* C21: when compactGroup completes on a group that had more than one segment,
\* the group holds no more segments than it held when the compaction began.
C21_FewerSegments ==
    [][CompactionCompletes =>
          Len(groups'[GroupAt(groups', cur.gid)].nodes) <= Len(cur.nodes)]_vars

\* a step in which compactGroup has written its output files
CompactionWrites == pc = "idle" /\ pc' = "cg_remove"
OutputBytes(kvs) == SeqSum([i \in 1..Len(kvs) |-> KVLen(kvs[i])])

\* C22: every segment compactGroup produces holds at most GroupSSTSize bytes of
\* keys and values, unless it is a single entry larger than GroupSSTSize, and
\* a new output segment is begun exactly when the next entry would take the
\* running size over GroupSSTSize.
C22_OutputBound ==
    [][CompactionWrites =>
          LET out == cur'.toAdd
          IN  /\ \A i \in DOMAIN out :
                    /\ out[i].kvs # <<>>
                    /\ \/ OutputBytes(out[i].kvs) <= conf.GroupSSTSize
                       \/ Len(out[i].kvs) = 1
              /\ \A i \in 1..(Len(out) - 1) :
                    OutputBytes(out[i].kvs) + KVLen(out[i + 1].kvs[1]) > conf.GroupSSTSize]_vars

\* a compaction has written a full segment of several entries and rolled to a
\* second one
C22_Witness ==
    /\ pc = "cg_remove"
    /\ Len(cur.toAdd) >= 2
    /\ Len(cur.toAdd[1].kvs) >= 2
    /\ OutputBytes(cur.toAdd[1].kvs) = conf.GroupSSTSize

Queued(i) == \E j \in DOMAIN rOnlyMemTable : rOnlyMemTable[j].walFile = walFile(i)
FlushPops == pc = "fl_pop" /\ pc' = "fl_rmwal"

\* C23: under fair scheduling and without Close, every item pushed on
\* rOnlyMemTable eventually leaves it, it leaves only after its segment was
\* added to a group, and once items were pushed the queue eventually is empty
\* with at least one segment file on disk.
C23_EventuallyFlushed ==
    /\ \A i \in 0..MaxNum : Queued(i) ~> ~Queued(i)
    /\ [][FlushPops => cur.added /\ \E f \in sstFiles : f.name = sstFile(cur.gid, cur.seq)]_vars
    /\ (rOnlyMemTable # <<>>) ~> (rOnlyMemTable = <<>> /\ sstFiles # {})

\* two rotated buffers wait in the queue while the compactor is busy with the first
C23_Witness ==
    /\ Len(rOnlyMemTable) = 2
    /\ pc = "fl_write"
    /\ ~closed

\* a step in which the process is killed and NewTree runs on its directory
Restarts == Len(kills') = Len(kills) + 1
WalIndexes == {i \in 0..MaxNum : walFile(i) \in DOMAIN walFiles}
Replayed(i) == RestoreToMemtable(walFiles[walFile(i)], EmptyTable)

\* C24: NewTree on a directory with n >= 1 wal files makes the buffer replayed
\* from the wal file of the largest index the active buffer, with memTableIndex
\* that index, and appends the n - 1 earlier buffers to rOnlyMemTable in
\* ascending index order, each with its own wal path and each sent to
\* memCompactC; the wal files themselves are left as they are.
C24_RecoveryAssignment ==
    [][Restarts /\ WalIndexes # {} =>
          /\ memTableIndex' = Max(WalIndexes)
          /\ memTable' = Replayed(Max(WalIndexes))
          /\ Len(rOnlyMemTable') = Cardinality(WalIndexes) - 1
          /\ \A j \in DOMAIN rOnlyMemTable' :
                \E i \in WalIndexes \ {Max(WalIndexes)} :
                   /\ rOnlyMemTable'[j].walFile = walFile(i)
                   /\ rOnlyMemTable'[j].memTable = Replayed(i)
                   /\ Cardinality({h \in WalIndexes : h < i}) = j - 1
          /\ memCompactC' = {walFile(i) : i \in WalIndexes \ {Max(WalIndexes)}}
          /\ walFiles' = walFiles]_vars

\* NewTree has just run on a directory of three wal files: two earlier buffers
\* are queued and sent, the third is active
C24_Witness ==
    /\ kills # <<>>
    /\ pc = "idle"
    /\ Len(rOnlyMemTable) = 2
    /\ Cardinality(memCompactC) = 2
    /\ Cardinality(DOMAIN walFiles) = 3
    /\ memTableIndex = 2

\* the group id and the seq a segment file was named with by sstFile
WrittenGroup(f) == CHOOSE n \in 0..MaxNum : Numeral(n) = f.name[2]
WrittenSeq(f) == CHOOSE n \in 0..MaxNum : Numeral(n) = f.name[4]

\* C25: after NewTree on a directory with segment files, the seq generator
\* equals the largest seq and the group-id generator the largest group id the
\* files were written with.
C25_GeneratorsSeeded ==
    [][Restarts /\ sstFiles # {} =>
          /\ sstSeq' = Max({WrittenSeq(f) : f \in sstFiles})
          /\ groupSeq' = Max({WrittenGroup(f) : f \in sstFiles})]_vars

\* C26: a Put never waits for the compactor: whatever the compactor is doing,
\* busy in a flush or a compaction or stopped, and however many frozen items
\* wait to be received from memCompactC, the next Put can run to its return,
\* with its rotation if the buffer is full.
C26_PutNeverWaits ==
    (nPuts < MaxPuts /\ \A c \in Callers : putCall[c].pc = "out") =>
        \A k \in Keys : ENABLED Put(k)

\* the compactor has stopped, and Puts made since have rotated two buffers whose
\* items wait on memCompactC
C26_Witness ==
    /\ pc = "stopped"
    /\ Cardinality(memCompactC) = 2
    /\ Len(rOnlyMemTable) = 2
    /\ nPuts = MaxPuts

\* C27 (recency inside a group): when several segments of a group hold a key,
\* Group.Get returns the value of the most recently added (highest seq) of
\* them; stated for open trees outside the segment swap of a compaction.
C27_GroupRecency ==
    (~closed /\ ~Swapping) =>
        \A i \in DOMAIN groups : \A k \in KeysOfNodes(groups[i].nodes) :
            GroupGet(groups[i], k) =
                Hit(ValueIn(groups[i].nodes[NewestHolder(groups[i].nodes, k)], k))

\* the values of key k held by the segments of group g, and by all groups
GroupValues(g, k) == {ValueIn(g.nodes[j], k) : j \in {h \in DOMAIN g.nodes : Holds(g.nodes[h], k)}}
AllValues(k) == UNION {GroupValues(groups[i], k) : i \in DOMAIN groups}

\* C28 (recency across groups): when segments of different groups hold a key,
\* the group probe of Tree.Get, which takes the first hit in reverse list order,
\* is answered by the group that holds the key's most recently written value;
\* stated for open trees outside the segment swap of a compaction.
C28_CrossGroupRecency ==
    (~closed /\ ~Swapping) =>
        \A k \in Keys :
            LET answering == {i \in DOMAIN groups : GroupGet(groups[i], k).ok}
            IN  answering # {} => Max(AllValues(k)) \in GroupValues(groups[Max(answering)], k)

\* the items of rOnlyMemTable whose buffer contains key k
QueuedWith(k) == {j \in DOMAIN rOnlyMemTable : rOnlyMemTable[j].memTable[k] # Nil}

\* C29 (in-memory probe order): Tree.Get returns the active buffer's value when
\* the active buffer contains the key, else the value of the last item of
\* rOnlyMemTable that contains it, and it answers from the groups only when no
\* buffer in memory contains the key.
C29_ProbeOrder ==
    \A k \in Keys :
        IF memTable[k] # Nil THEN TreeGet(k) = Hit(memTable[k])
        ELSE IF QueuedWith(k) # {}
        THEN TreeGet(k) = Hit(rOnlyMemTable[Max(QueuedWith(k))].memTable[k])
        ELSE TreeGet(k) = GroupsScan(groups, Len(groups), k)

\* a key is absent from the active buffer and held with different values by two
\* queued buffers, while a segment holds a third value of it
C29_Witness ==
    \E k \in Keys :
        /\ memTable[k] = Nil
        /\ Cardinality({rOnlyMemTable[j].memTable[k] : j \in QueuedWith(k)}) = 2
        /\ GroupsScan(groups, Len(groups), k).ok

\* a step in which the compactor receives an item from memCompactC
FlushBegins == pc = "idle" /\ pc' \in {"fl_write", "fl_pop"}

\* C30 (flush order): the compactor flushes the rotated buffers in the order of
\* their rotation, and after a restart in ascending wal index order: the item
\* it receives is the oldest item of rOnlyMemTable.
C30_FlushOrder ==
    [][FlushBegins => cur'.walFile = rOnlyMemTable[1].walFile]_vars

\* the entries a list of segments holds, a later segment of the list overriding
\* an earlier one
Contents(nodes) == MergeNodes(nodes, EmptyTable)

\* C32 (failed compaction): when compactGroup hands its output to
\* replaceGroupNodes, also after a NewSSTWriter or a NewSSTReader of an output
\* segment failed, the output segments hold every key of the segments they
\* replace, with the same value: no segment is removed whose data the installed
\* output does not cover.
C32_FailedCompactionKeepsData ==
    (pc = "cg_remove" /\ cur.toRemove = cur.nodes) =>
        \A k \in Keys : Contents(cur.toAdd)[k] = Contents(cur.nodes)[k]

\* a step in which the compactor receives group id from groupCompactC
ReceivesSignal(id) ==
    /\ pc = "idle"
    /\ BagIn(id, groupCompactC)
    /\ groupCompactC' = groupCompactC (-) SetToBag({id})
    /\ kills' = kills

\* C33 (skipped signal): a compaction signal for a group that has at most one
\* segment, or for an id that is not in the group list, changes nothing: the
\* group list with every group's segments, the generators and the files stay as
\* they are, nothing is handed to the destroyer and the compactor is idle again.
C33_SkippedSignal ==
    [][\A id \in GroupIDs :
          (ReceivesSignal(id) /\
           (~HasGroup(groups, id) \/ Len(groups[GroupAt(groups, id)].nodes) <= 1))
              => /\ UNCHANGED <<groups, groupSeq, sstSeq, sstFiles, destroyQ, closedReaders>>
                 /\ pc' = "idle"]_vars

\* a signal for a group of one segment is waiting and the compactor is idle
C33_Witness ==
    \E id \in GroupIDs :
        /\ pc = "idle"
        /\ BagIn(id, groupCompactC)
        /\ HasGroup(groups, id)
        /\ Len(groups[GroupAt(groups, id)].nodes) = 1
        /\ sstFiles # {}

\* the aggregates of a group agree with its members
Aggregates(g) ==
    /\ g.startKey = IF g.nodes = <<>> THEN Nil
                    ELSE Min({g.nodes[i].startKey : i \in DOMAIN g.nodes})
    /\ g.endKey = IF g.nodes = <<>> THEN Nil
                  ELSE Max({g.nodes[i].endKey : i \in DOMAIN g.nodes})
    /\ g.size = SeqSum([i \in DOMAIN g.nodes |-> g.nodes[i].size])
    /\ \A i, j \in DOMAIN g.nodes : i < j => g.nodes[i].startKey <= g.nodes[j].startKey

\* C34 (group aggregates): after any sequence of AddNode and RemoveNode calls the
\* group's startKey is the least start key of its members and its endKey their
\* greatest end key (both nil for the empty group), its size is the sum of their
\* sizes and its segments are in ascending order of start key; RemoveNode of a
\* segment that is not a member returns false and changes nothing, and RemoveNode
\* of a member returns true.
C34_GroupAggregates ==
    /\ [](\A i \in DOMAIN groups : Aggregates(groups[i]))
    /\ [][call'.op = "RemoveNode" =>
            /\ call'.ret = (\E i \in DOMAIN groups[1].nodes : groups[1].nodes[i] = call'.node)
            /\ ~call'.ret => groups' = groups]_vars

\* RemoveNode of a non-member has returned false on a group of two segments
\* with different start keys
C34_Witness ==
    /\ call.op = "RemoveNode"
    /\ ~call.ret
    /\ Len(groups[1].nodes) >= 2
    /\ groups[1].nodes[1].startKey < groups[1].nodes[Len(groups[1].nodes)].startKey
    /\ groups[1].nodes[1].endKey > groups[1].nodes[Len(groups[1].nodes)].endKey

\* C35 (group list order): in every reachable state, after NewTree has rebuilt the
\* groups from the directory and after every findOrCreateGroup, the group list is
\* in strictly ascending order of group id, so no two groups share an id.
C35_GroupListSorted ==
    \A i, j \in DOMAIN groups : i < j => groups[i].id < groups[j].id

\* a tree rebuilt from its directory to which findOrCreateGroup has added a group
C35_Witness ==
    /\ kills # <<>>
    /\ Len(groups) >= 2
    /\ \A i \in DOMAIN groups : groups[i].nodes # <<>>

\* C36 (segment lookup): Node.Get(k) on a segment whose index has one entry per
\* data block, keyed by the block's last key, returns (v, true) for every pair
\* (k, v) the segment holds, whatever block the key is in, and a miss for every
\* key the segment does not hold.
C36_NodeGetComplete ==
    call.op = "Get" =>
        LET at == {j \in DOMAIN TheNode.kvs : TheNode.kvs[j].Key = call.key}
        IN  IF at = {} THEN call.ret = Miss
            ELSE call.ret = Hit(TheNode.kvs[Min(at)].Value)

\* C40 (index search): on a non-empty index in ascending key order,
\* binarySearchIndex(key, 0, len(index)-1) returns true with the first index
\* entry whose key is not smaller than the lookup key, and returns false exactly
\* when every index key is smaller than the lookup key.
C40_IndexSearch ==
    call.op = "binarySearchIndex" =>
        LET geq == {i \in DOMAIN TheNode.index : TheNode.index[i].Key >= call.key}
        IN  /\ call.ret.ok = (geq # {})
            /\ geq # {} => call.ret.entry = TheNode.index[Min(geq)]

\* a search in an index of three entries or more that has ended on an entry that
\* is neither the first nor the last; and an index all of whose keys are smaller
C40_Witness ==
    /\ call.op = "binarySearchIndex"
    /\ Len(TheNode.index) >= 3
    /\ call.ret.ok
    /\ call.ret.entry # TheNode.index[1]
    /\ call.ret.entry # TheNode.index[Len(TheNode.index)]
    /\ call.ret.entry.Key > call.key

\* the segment handles that are in a group or about to be added to one
LiveNodes ==
    {groups[i].nodes[j] : <<i, j>> \in
        {<<a, b>> \in (DOMAIN groups) \X (1..MaxNum) : b \in DOMAIN groups[a].nodes}}
    \cup {cur.toAdd[i] : i \in DOMAIN cur.toAdd}

\* C37 (segment seq): a segment created by a flush or a compaction gets a seq
\* greater than the seq of every segment created before it in the run and of
\* every segment file found at start-up: the generator is never below the seq
\* of a file or of a handle, a new file never has the name of a file that is on
\* disk, and no two live handles have the same file name.
C37_SeqUnique ==
    /\ [](/\ \A f \in sstFiles : Parsed(f).seq <= sstSeq
          /\ \A n \in LiveNodes : n.seq <= sstSeq
          /\ \A n, m \in LiveNodes : n.file = m.file => n = m)
    /\ [][\A f \in sstFiles' \ sstFiles :
             /\ f.name \notin {g.name : g \in sstFiles}
             /\ \A g \in sstFiles : Parsed(f).seq > Parsed(g).seq
             /\ \A n \in LiveNodes : Parsed(f).seq > n.seq]_vars

\* a tree rebuilt from a directory with segments has created a new segment
C37_Witness ==
    /\ kills # <<>>
    /\ kills[1].sstSeq > 0
    /\ \E n \in LiveNodes : n.seq > kills[1].sstSeq

\* the segments Tree.Get reads for key, as <<group index, segment index>>: those
\* of the groups whose range holds the key that do not answer with a plain miss
Decisive(key) ==
    {p \in (DOMAIN groups) \X (1..MaxNum) :
        /\ p[2] \in DOMAIN groups[p[1]].nodes
        /\ keyInRange(groups[p[1]], key)
        /\ NodeGet(groups[p[1]].nodes[p[2]], key) # Miss}

\* p is probed before q: a later group first, and in a group a later segment first
ProbedBefore(p, q) == p[1] > q[1] \/ (p[1] = q[1] /\ p[2] > q[2])

InMemory(key) ==
    memTable[key] # Nil \/ \E i \in DOMAIN rOnlyMemTable : rOnlyMemTable[i].memTable[key] # Nil

\* C39 (read errors): Tree.Get returns the result of the first segment, in probe
\* order, that reads the key or fails to read it: a read error is returned at
\* once, without an older segment or an older group being consulted; and a key
\* found in an in-memory buffer is returned without a segment being read,
\* whatever the state of the segments.
C39_FirstReadError ==
    \A k \in Keys :
        IF InMemory(k) THEN TreeGet(k).ok /\ ~TreeGet(k).err
        ELSE IF Decisive(k) = {} THEN TreeGet(k) = Miss
        ELSE LET first == CHOOSE p \in Decisive(k) :
                             \A q \in Decisive(k) \ {p} : ProbedBefore(p, q)
             IN  TreeGet(k) = NodeGet(groups[first[1]].nodes[first[2]], k)

\* a Get that returns a read error for a key that is in no buffer and that a
\* segment probed later holds and could be read from
C39_Witness ==
    \E k \in Keys :
        /\ ~InMemory(k)
        /\ TreeGet(k).err
        /\ \E p \in Decisive(k) : NodeGet(groups[p[1]].nodes[p[2]], k).ok

\* dataLock, groupLock and the nodeLock of every group
AllLocks == {locks.data, locks.group} \cup {locks.node[id] : id \in 0..MaxNum}

\* the goroutines that hold L
Holders(L) == (IF L.w = NoProc THEN {} ELSE {L.w}) \cup L.r

\* the goroutines inside Lock() or RLock() of L
Waiters(L) == {L.wq[i] : i \in 1..Len(L.wq)} \cup L.rq

\* the goroutines p waits for inside Lock() or RLock() of L: a writer waits for
\* the holders and for the writers that called Lock() before it, a reader for
\* the writer that holds L or is the first inside Lock()
BlockersAt(L, p) ==
    IF p \in L.rq
    THEN IF L.w # NoProc THEN {L.w}
         ELSE IF L.wq # <<>> THEN {Head(L.wq)} ELSE {}
    ELSE IF \E i \in 1..Len(L.wq) : L.wq[i] = p
    THEN Holders(L) \cup {L.wq[i] : i \in {j \in 1..Len(L.wq) : \A h \in 1..j : L.wq[h] # p}}
    ELSE {}

Blockers(p) == UNION {BlockersAt(L, p) : L \in AllLocks}

\* a set of goroutines each of which waits only for goroutines of the set
Knot(S) == S # {} /\ \A p \in S : Blockers(p) # {} /\ Blockers(p) \subseteq S

\* groupLock before nodeLock, and nothing taken under dataLock
LockOrder ==
    \A p \in Procs :
        /\ p \in Waiters(locks.group) =>
              \A id \in 0..MaxNum : p \notin Holders(locks.node[id])
        /\ p \in Holders(locks.data) =>
              /\ p \notin Holders(locks.group) \cup Waiters(locks.group)
              /\ \A id \in 0..MaxNum :
                    p \notin Holders(locks.node[id]) \cup Waiters(locks.node[id])

\* C38: with Put callers, Get callers and the compactor running together, no
\* set of goroutines waits for one another in a cycle on dataLock, groupLock
\* and the nodeLocks: a goroutine takes groupLock before a nodeLock and takes
\* no lock while it holds dataLock, and the short read locks taken under
\* groupLock by findOrCreateGroup and compactGroup return at once.
C38_NoDeadlock ==
    /\ \A S \in SUBSET Procs : ~Knot(S)
    /\ LockOrder
    /\ pc = "l_fo_in" => \A id \in 0..MaxNum : Readable(locks.node[id])
    /\ pc = "l_cg_in" => \A id \in 0..MaxNum : Readable(locks.node[id])

\* a chain of waits: the compactor waits inside nodeLock.Lock() for a Get caller
\* that holds the nodeLock and groupLock for reading, and another Get caller
\* waits inside nodeLock.RLock() for the compactor
C38_Witness ==
    \E r \in Readers : \E q \in Readers \ {r} : \E id \in 0..MaxNum :
        /\ pc \in {"l_cg_rm", "l_cg_add", "l_add"}
        /\ Getter(r) \in locks.node[id].r
        /\ Getter(r) \in locks.group.r
        /\ Getter(r) \in Blockers(Compactor)
        /\ Getter(q) \in locks.node[id].rq
        /\ Blockers(Getter(q)) = {Compactor}

\* the segment's reader is open and its file is on disk
Usable(n) == NodeOpen(n) /\ OnDisk(n.file)

InSomeGroup(n) == \E i \in DOMAIN groups : \E j \in DOMAIN groups[i].nodes : groups[i].nodes[j] = n

\* C31 (no use after destroy): while the tree is open every segment of a group
\* is usable; a Group.Get in progress reads the list it found when it took the
\* nodeLock, inside its range, and every segment of that list is still usable;
\* GetAllKVs of a compaction reads usable segments; and a segment handed to the
\* destroy goroutine is in no group's list any more.
C31_NoUseAfterDestroy ==
    /\ \A i \in DOMAIN groups : \A j \in DOMAIN groups[i].nodes : Usable(groups[i].nodes[j])
    /\ \A r \in Readers :
          getCall[r].pc = "probe" =>
              /\ getCall[r].saw = groups[getCall[r].gi].nodes
              /\ getCall[r].j \in 1..Len(getCall[r].saw)
              /\ \A j \in DOMAIN getCall[r].saw : Usable(getCall[r].saw[j])
    /\ \A r \in Readers : getCall[r].pc # "panic"
    /\ pc = "l_cg_read" =>
          /\ cur.nodes = groups[GroupAt(groups, cur.gid)].nodes
          /\ \A j \in DOMAIN cur.nodes : Usable(cur.nodes[j])
    /\ \A i \in DOMAIN destroyQ : ~InSomeGroup(destroyQ[i])

\* a Get caller reads a segment of a group while a segment that was replaced
\* in that group has been destroyed and another waits for its destroy
C31_Witness ==
    \E r \in Readers :
        /\ getCall[r].pc = "probe"
        /\ closedReaders # {}
        /\ destroyQ # <<>>
        /\ \A f \in closedReaders : ~OnDisk(f)

=============================================================================
